---- MODULE Spec2Model ----
(***************************************************************************)
(* Read path of mini-lsm: the k-way MergeIterator, the SsTable block index *)
(* and SsTableIterator, the Block codec with its BlockBuilder, the Bloom   *)
(* filter, and the SST file with its metadata codec and checksums.         *)
(*                                                                         *)
(* Keys and values are byte sequences; keys compare lexicographically.     *)
(* Each subsystem has its own specification (SpecMerge, SpecSst,           *)
(* SpecBlock, SpecBloom, ...); the variables of the other subsystems stay  *)
(* at their idle values.                                                   *)
(***************************************************************************)
EXTENDS Integers, Sequences, FiniteSets

VARIABLES
    \* ---- MergeIterator (iterators/merge_iterator.rs)
    sources,    \* the Vec<Box<I>> handed to create: each a sequence of entries
    pos,        \* pos[s]: 1-based cursor of source iterator s
    iters,      \* MergeIterator.iters: the BinaryHeap, as a set of HeapWrappers
    current,    \* MergeIterator.current: None or a HeapWrapper
    mpc,        \* "new" before create, "ready" after, "failed" once a
                \* next() call has returned an error
    steps,      \* number of next() calls that returned Ok
    emitted,    \* (key, value) pairs observed through key()/value() so far
    failed      \* None, or which source's next() returned the error, and
                \* where: [at |-> "heap" or "current", it |-> source]

mergeVars == <<sources, pos, iters, current, mpc, steps, emitted, failed>>

VARIABLES
    \* ---- BlockBuilder and Block (block/builder.rs, block.rs)
    builder,    \* BlockBuilder: [offsets, data, block_size, first_key]; None once built
    added,      \* the (key, value) pairs for which add returned true, in order
    ret,        \* what the last add returned: "true", "false" ("none" before the first)
    budget,     \* add calls still to be made in this run
    bpc,        \* "building", "built", "encoded", "decoded"; "raw", "rawdone"
                \* when decode is given bytes that no builder produced
    block,      \* the Block returned by build
    encoded,    \* block.encode(), or the raw input of decode
    decoded     \* Block::decode(encoded)

blockVars == <<builder, added, ret, budget, bpc, block, encoded, decoded>>

VARIABLES
    \* ---- SsTable and SsTableIterator (table.rs, table/iterator.rs)
    table,      \* the shared SsTable: [block_meta, blocks, block_meta_offset]
    iter,       \* the SsTableIterator [blk_idx, blk_iter], None before create
    target,     \* the last positioning call: kind "none", "first" or "key" (with key)
    nexts,      \* next() calls since the last positioning call
    seen,       \* entries observed through key()/value() since that call
    found       \* the last find_block_idx call: None or [key, idx]

sstVars == <<table, iter, target, nexts, seen, found>>

VARIABLES
    \* ---- Bloom (table/bloom.rs)
    bkeys,      \* the key hashes handed to build_from_key_hashes
    bpk,        \* the bits_per_key handed to it
    bloom,      \* the Bloom [filter, k] built or decoded, None before
    probe,      \* the last may_contain call: None or [h, ret]
    blpc        \* "new", "built", "decoded"

bloomVars == <<bkeys, bpk, bloom, probe, blpc>>

VARIABLES
    \* ---- BlockMeta codec (table.rs)
    metaIn,     \* the list of BlockMeta handed to encode_block_meta
    metaBuf,    \* the bytes it wrote, possibly with one bit flipped since
    metaFlip,   \* the number (from 1) of the bit that was flipped, 0 if none
    metaOut,    \* what decode_block_meta(metaBuf) returned, None before
    mtpc        \* "new", "encoded", "decoded"

metaVars == <<metaIn, metaBuf, metaFlip, metaOut, mtpc>>

VARIABLES
    \* ---- SST file, SsTable::open and SsTable::read_block (table.rs)
    file,       \* the bytes of the SST file
    fsrc,       \* the blocks (entries) the file was written from
    fflip,      \* the number (from 1) of the bit of it that is flipped, 0 if none
    opened,     \* what SsTable::open returned, None before
    rblock,     \* the last read_block call: None or [idx, res]
    fpc,        \* "new", "opened" (open returned an SST), "failed"
    overflow_checks \* the build: TRUE when integer overflow panics (debug),
                \* FALSE when it wraps around (release)

fileVars == <<file, fsrc, fflip, opened, rblock, fpc, overflow_checks>>

VARIABLES
    \* ---- SsTable::read_block_cached called from several threads (table.rs)
    attached,   \* whether the SsTable has a block cache
    cache,      \* the block cache: block index -> the Block held, or None
    tpc,        \* per thread: "idle", "loading", "waiting", "done"
    tkey,       \* per thread: the block index of its call
    tres,       \* per thread: what its call returned, None before
    tvia,       \* per thread: how it got it: "hit", "load", "wait", "direct"
    nloads,     \* per block index: the read_block calls made so far
    ncalls      \* the read_block_cached calls made so far

cacheVars == <<attached, cache, tpc, tkey, tres, tvia, nloads, ncalls>>

VARIABLES
    \* ---- several SsTableIterators over one shared SsTable (table/iterator.rs)
    its,        \* its[i]: SsTableIterator i, [blk_idx, blk_iter], None before create
    alone,      \* alone[i]: the iterator that got the calls of i one after the
                \* other on the table itself, no other iterator and no block
                \* cache around
    scache,     \* the block cache they share: per block <<the Block held>>, or <<>>
    calls       \* calls[i]: the call on iterator i in flight, and where its
                \* read_block_cached stands

shareVars == <<its, alone, scache, calls>>

VARIABLES
    \* ---- a BlockBuilder holding many entries (block/builder.rs, block.rs)
    cbuilder,   \* the builder, kept as the add calls that made it: n accepted
                \* calls add(key, value) on BlockBuilder::new(block_size)
    cadds,      \* add calls still to be made in this run
    cret,       \* what the last add returned ("none" before the first)
    crt         \* None, or what build, encode and decode gave: [entries, ok,
                \* same_data, same_offsets, decoded_entries]

countVars == <<cbuilder, cadds, cret, crt>>

restVars == <<bloomVars, metaVars, fileVars, cacheVars, shareVars, countVars>>

vars == <<mergeVars, blockVars, sstVars, restVars>>

None == [none |-> TRUE]

(***************************************************************************)
(* Keys: byte strings under lexicographic order (KeySlice's Ord).          *)
(***************************************************************************)
MinNat(a, b) == IF a <= b THEN a ELSE b

\* first index at which a and b differ, or 0 when one is a prefix of the other
FirstDiff(a, b) ==
    LET m == MinNat(Len(a), Len(b))
        D == {i \in 1..m : a[i] # b[i]}
    IN  IF D = {} THEN 0 ELSE CHOOSE i \in D : \A j \in D : i <= j

KeyLt(a, b) ==
    LET d == FirstDiff(a, b)
    IN  IF d = 0 THEN Len(a) < Len(b) ELSE a[d] < b[d]

KeyLe(a, b) == a = b \/ KeyLt(a, b)

\* std::cmp::Ord::cmp on keys
KeyCmp(a, b) == IF a = b THEN "Equal" ELSE IF KeyLt(a, b) THEN "Less" ELSE "Greater"

Reverse(o) == IF o = "Less" THEN "Greater" ELSE IF o = "Greater" THEN "Less" ELSE o

IntCmp(a, b) == IF a = b THEN "Equal" ELSE IF a < b THEN "Less" ELSE "Greater"

(***************************************************************************)
(* Source iterators: any StorageIterator over a finite, strictly           *)
(* increasing run of entries.                                              *)
(***************************************************************************)
SrcIsValid(p, s) == p[s] <= Len(sources[s])
SrcKey(p, s) == sources[s][p[s]].key
SrcValue(p, s) == sources[s][p[s]].value
SrcNext(p, s) == IF SrcIsValid(p, s) THEN [p EXCEPT ![s] = @ + 1] ELSE p

\* StorageIterator::num_active_iterators of source s: the sources report
\* different counts, as nested merge iterators of different fan-out do
SrcNumActive(s) == s

(***************************************************************************)
(* HeapWrapper(idx, iter) and its ordering.  A wrapper is [idx, it]: idx   *)
(* is field .0, it names the boxed source iterator of field .1.            *)
(***************************************************************************)
HeapWrapper(idx, it) == [idx |-> idx, it |-> it]

\* the tie-break taken the other way round: larger index first
partial_cmp_TieLarger(p, a, b) ==
    LET k == KeyCmp(SrcKey(p, a.it), SrcKey(p, b.it))
    IN  IF k = "Equal" THEN IntCmp(a.idx, b.idx) ELSE Reverse(k)

partial_cmp(p, a, b) ==
    LET k == KeyCmp(SrcKey(p, a.it), SrcKey(p, b.it))
    IN  Reverse(IF k = "Equal" THEN IntCmp(a.idx, b.idx) ELSE k)

WrapperLt(p, a, b) == partial_cmp(p, a, b) = "Less"

\* BinaryHeap::peek / peek_mut: the greatest element under Ord
HeapTop(p, h) == CHOOSE w \in h : \A v \in h : ~WrapperLt(p, w, v)

(***************************************************************************)
(* MergeIterator::create                                                   *)
(***************************************************************************)
AllInvalid(p) == \A s \in 1..Len(sources) : ~SrcIsValid(p, s)

CreateHeap(p) ==
    {HeapWrapper(s - 1, s) : s \in {t \in 1..Len(sources) : SrcIsValid(p, t)}}

MergeIsValid(cur, p) == IF cur = None THEN FALSE ELSE SrcIsValid(p, cur.it)

MergeKey(cur, p) == SrcKey(p, cur.it)
MergeValue(cur, p) == SrcValue(p, cur.it)

Observe(cur, p) ==
    IF MergeIsValid(cur, p)
    THEN Append(emitted, [key |-> MergeKey(cur, p), value |-> MergeValue(cur, p),
                          idx |-> cur.idx])
    ELSE emitted

\* `all` taken for `any`: one invalid iterator is enough to return early
Create_AnyInvalid ==
    /\ mpc = "new"
    /\ mpc' = "ready"
    /\ IF Len(sources) = 0
       THEN /\ iters' = {}
            /\ current' = None
       ELSE IF \E s \in 1..Len(sources) : ~SrcIsValid(pos, s)
       THEN /\ iters' = {}
            /\ current' = HeapWrapper(0, Len(sources))
       ELSE LET heap == CreateHeap(pos)
                top == HeapTop(pos, heap)
            IN  /\ iters' = heap \ {top}
                /\ current' = top
    /\ emitted' = Observe(current', pos)
    /\ UNCHANGED <<sources, pos, steps, failed>>
    /\ UNCHANGED <<blockVars, sstVars, restVars>>

Create ==
    /\ mpc = "new"
    /\ mpc' = "ready"
    /\ IF Len(sources) = 0
       THEN /\ iters' = {}
            /\ current' = None
       ELSE IF AllInvalid(pos)
       THEN /\ iters' = {}
            /\ current' = HeapWrapper(0, Len(sources))
       ELSE LET heap == CreateHeap(pos)
                top == HeapTop(pos, heap)
            IN  /\ iters' = heap \ {top}
                /\ current' = top
    /\ emitted' = Observe(current', pos)
    /\ UNCHANGED <<sources, pos, steps, failed>>
    /\ UNCHANGED <<blockVars, sstVars, restVars>>

(***************************************************************************)
(* MergeIterator::next                                                     *)
(***************************************************************************)
\* the loop left out: heap members sitting on current's key are not advanced
SkipLoop_NoSkip(h, p, cur) == [heap |-> h, pos |-> p]

\* Case 2 without its validity test: the advanced iterator is always popped
RECURSIVE SkipLoop_PopAlways(_, _, _)
SkipLoop_PopAlways(h, p, cur) ==
    IF h = {} THEN [heap |-> h, pos |-> p]
    ELSE LET top == HeapTop(p, h)
         IN  IF SrcKey(p, top.it) = SrcKey(p, cur.it)
             THEN SkipLoop_PopAlways(h \ {top}, SrcNext(p, top.it), cur)
             ELSE [heap |-> h, pos |-> p]

\* while let Some(inner_iter) = self.iters.peek_mut() { ... }
RECURSIVE SkipLoop(_, _, _)
SkipLoop(h, p, cur) ==
    IF h = {} THEN [heap |-> h, pos |-> p]
    ELSE LET top == HeapTop(p, h)
         IN  IF SrcKey(p, top.it) = SrcKey(p, cur.it)
             THEN LET p2 == SrcNext(p, top.it)
                  IN  IF ~SrcIsValid(p2, top.it)
                      THEN SkipLoop(h \ {top}, p2, cur)
                      ELSE SkipLoop(h, p2, cur)
             ELSE [heap |-> h, pos |-> p]

\* next() without the comparison with the heap top at its end
NextMerge_NoSwap ==
    /\ mpc = "ready"
    /\ MergeIsValid(current, pos)
    /\ LET r  == SkipLoop(iters, pos, current)
           p2 == SrcNext(r.pos, current.it)
       IN  /\ pos' = p2
           /\ IF ~SrcIsValid(p2, current.it) /\ r.heap # {}
              THEN LET top == HeapTop(p2, r.heap)
                   IN  /\ current' = top
                       /\ iters' = r.heap \ {top}
              ELSE /\ current' = current
                   /\ iters' = r.heap
    /\ steps' = steps + 1
    /\ emitted' = Observe(current', pos')
    /\ UNCHANGED <<sources, mpc, failed>>
    /\ UNCHANGED <<blockVars, sstVars, restVars>>

NextMerge ==
    /\ mpc = "ready"
    /\ MergeIsValid(current, pos)
    /\ LET r  == SkipLoop(iters, pos, current)
           p2 == SrcNext(r.pos, current.it)
       IN  /\ pos' = p2
           /\ IF ~SrcIsValid(p2, current.it)
              THEN IF r.heap # {}
                   THEN LET top == HeapTop(p2, r.heap)
                        IN  /\ current' = top
                            /\ iters' = r.heap \ {top}
                   ELSE /\ current' = current
                        /\ iters' = r.heap
              ELSE IF r.heap # {} /\ WrapperLt(p2, current, HeapTop(p2, r.heap))
                   THEN LET top == HeapTop(p2, r.heap)
                        IN  /\ current' = top
                            /\ iters' = (r.heap \ {top}) \cup {current}
                   ELSE /\ current' = current
                        /\ iters' = r.heap
    /\ steps' = steps + 1
    /\ emitted' = Observe(current', pos')
    /\ UNCHANGED <<sources, mpc, failed>>
    /\ UNCHANGED <<blockVars, sstVars, restVars>>

\* the loop when the next() call number n + 1 it makes on a heap member
\* returns an error: that member is popped and next() returns.  `it` is the
\* source that failed, 0 if the loop ended before making that call.
\* the failing member left in the heap
RECURSIVE SkipLoopFail_NoPop(_, _, _, _)
SkipLoopFail_NoPop(h, p, cur, n) ==
    IF h = {} THEN [heap |-> h, pos |-> p, it |-> 0]
    ELSE LET top == HeapTop(p, h)
         IN  IF SrcKey(p, top.it) = SrcKey(p, cur.it)
             THEN IF n = 0
                  THEN [heap |-> h, pos |-> p, it |-> top.it]
                  ELSE LET p2 == SrcNext(p, top.it)
                       IN  IF ~SrcIsValid(p2, top.it)
                           THEN SkipLoopFail_NoPop(h \ {top}, p2, cur, n - 1)
                           ELSE SkipLoopFail_NoPop(h, p2, cur, n - 1)
             ELSE [heap |-> h, pos |-> p, it |-> 0]

RECURSIVE SkipLoopFail(_, _, _, _)
SkipLoopFail(h, p, cur, n) ==
    IF h = {} THEN [heap |-> h, pos |-> p, it |-> 0]
    ELSE LET top == HeapTop(p, h)
         IN  IF SrcKey(p, top.it) = SrcKey(p, cur.it)
             THEN IF n = 0
                  THEN [heap |-> h \ {top}, pos |-> p, it |-> top.it]
                  ELSE LET p2 == SrcNext(p, top.it)
                       IN  IF ~SrcIsValid(p2, top.it)
                           THEN SkipLoopFail(h \ {top}, p2, cur, n - 1)
                           ELSE SkipLoopFail(h, p2, cur, n - 1)
             ELSE [heap |-> h, pos |-> p, it |-> 0]

\* next() when inner_iter.1.next() returns Err: PeekMut::pop, return e
NextFailsInHeap(n) ==
    /\ mpc = "ready"
    /\ MergeIsValid(current, pos)
    /\ LET r == SkipLoopFail(iters, pos, current, n)
       IN  /\ r.it # 0
           /\ iters' = r.heap
           /\ pos' = r.pos
           /\ failed' = [at |-> "heap", it |-> r.it]
    /\ mpc' = "failed"
    /\ UNCHANGED <<sources, current, steps, emitted>>
    /\ UNCHANGED <<blockVars, sstVars, restVars>>

\* next() when current.1.next()? returns Err, after the loop ran to its end
NextFailsInCurrent ==
    /\ mpc = "ready"
    /\ MergeIsValid(current, pos)
    /\ LET r == SkipLoop(iters, pos, current)
       IN  /\ iters' = r.heap
           /\ pos' = r.pos
    /\ failed' = [at |-> "current", it |-> current.it]
    /\ mpc' = "failed"
    /\ UNCHANGED <<sources, current, steps, emitted>>
    /\ UNCHANGED <<blockVars, sstVars, restVars>>

(***************************************************************************)
(* MergeIterator::num_active_iterators                                     *)
(***************************************************************************)
\* self.iters.iter().map(|x| x.1.num_active_iterators()).sum::<usize>()
RECURSIVE SumActive(_)
SumActive(h) ==
    IF h = {} THEN 0
    ELSE LET w == CHOOSE x \in h : TRUE
         IN  SrcNumActive(w.it) + SumActive(h \ {w})

\* the sum taken over the heap alone
num_active_iterators_HeapOnly(h, cur) == SumActive(h)

num_active_iterators(h, cur) ==
    SumActive(h) + (IF cur = None THEN 0 ELSE SrcNumActive(cur.it))

(***************************************************************************)
(* Inputs of the merge: up to MaxSources sources, each a strictly          *)
(* increasing run over MergeKeys; the value records where it came from.    *)
(***************************************************************************)
MaxSources == 3

MergeKeys == {<<1>>, <<1, 2>>, <<2>>, <<2, 1>>}

\* the keys of S in increasing order
RECURSIVE SortedSeq(_)
SortedSeq(S) ==
    IF S = {} THEN <<>>
    ELSE LET m == CHOOSE k \in S : \A j \in S : KeyLe(k, j)
         IN  <<m>> \o SortedSeq(S \ {m})

SourceOf(S, tag) ==
    LET ks == SortedSeq(S)
    IN  [i \in 1..Len(ks) |-> [key |-> ks[i], value |-> <<tag>> \o ks[i]]]

MergeIdle ==
    /\ sources = <<>>
    /\ pos = <<>>
    /\ iters = {}
    /\ current = None
    /\ mpc = "idle"
    /\ steps = 0
    /\ emitted = <<>>
    /\ failed = None

MergeStart ==
    /\ \E n \in 0..MaxSources :
         \E f \in [1..n -> SUBSET MergeKeys] :
            sources = [s \in 1..n |-> SourceOf(f[s], s)]
    /\ pos = [s \in 1..Len(sources) |-> 1]
    /\ iters = {}
    /\ current = None
    /\ mpc = "new"
    /\ steps = 0
    /\ emitted = <<>>
    /\ failed = None

(***************************************************************************)
(* Bytes and big-endian 16-bit integers (bytes::BufMut / bytes::Buf)       *)
(***************************************************************************)
SIZEOF_U16 == 2
U16Mod == 65536

\* `x as u16`
AsU16(x) == x % U16Mod

\* BufMut::put_u16 of a u16
put_u16(x) == <<x \div 256, x % 256>>

\* Buf::get_u16 on the two bytes at 1-based position i
get_u16(bytes, i) == bytes[i] * 256 + bytes[i + 1]

(***************************************************************************)
(* BlockBuilder                                                            *)
(***************************************************************************)
BlockBuilderNew(block_size) ==
    [offsets |-> <<>>, data |-> <<>>, block_size |-> block_size, first_key |-> <<>>]

\* the value the loop ends with: the number of leading positions, within
\* both lengths, on which the two keys agree
compute_overlap(first_key, key) ==
    LET d == FirstDiff(first_key, key)
    IN  IF d = 0 THEN MinNat(Len(first_key), Len(key)) ELSE d - 1

estimated_size(b) == SIZEOF_U16 + Len(b.offsets) * SIZEOF_U16 + Len(b.data)

is_empty(b) == Len(b.offsets) = 0

\* the size test taken alone, without `&& !self.is_empty()`
AddRejects_EmptyToo(b, key, value) ==
    estimated_size(b) + Len(key) + Len(value) + SIZEOF_U16 * 3 > b.block_size

\* the early `return false` of add
AddRejects(b, key, value) ==
    /\ estimated_size(b) + Len(key) + Len(value) + SIZEOF_U16 * 3 > b.block_size
    /\ ~is_empty(b)

\* the builder after add(key, value) returned true
AddEntry(b, key, value) ==
    LET overlap == compute_overlap(b.first_key, key)
    IN  [offsets    |-> Append(b.offsets, AsU16(Len(b.data))),
         data       |-> b.data \o put_u16(AsU16(overlap))
                               \o put_u16(AsU16(Len(key) - overlap))
                               \o SubSeq(key, overlap + 1, Len(key))
                               \o put_u16(AsU16(Len(value)))
                               \o value,
         block_size |-> b.block_size,
         first_key  |-> IF Len(b.first_key) = 0 THEN key ELSE b.first_key]

\* BlockBuilder::build
BuildBlock(b) == [data |-> b.data, offsets |-> b.offsets]

(***************************************************************************)
(* Block::encode and Block::decode                                         *)
(***************************************************************************)
\* the offsets, each as two big-endian bytes
OffsetBytes(offsets) ==
    [i \in 1..(SIZEOF_U16 * Len(offsets)) |->
        IF i % 2 = 1 THEN offsets[(i + 1) \div 2] \div 256
                     ELSE offsets[i \div 2] % 256]

BlockEncode(blk) ==
    blk.data \o OffsetBytes(blk.offsets) \o put_u16(AsU16(Len(blk.offsets)))

\* data_end taken without the two bytes of the count
BlockDecode_CountInData(bytes) ==
    IF Len(bytes) < SIZEOF_U16 THEN [ok |-> FALSE]
    ELSE LET entry_offsets_len == get_u16(bytes, Len(bytes) - SIZEOF_U16 + 1)
             data_end == Len(bytes) - entry_offsets_len * SIZEOF_U16
         IN  IF data_end < SIZEOF_U16 THEN [ok |-> FALSE]
             ELSE [ok      |-> TRUE,
                   data    |-> SubSeq(bytes, 1, data_end),
                   offsets |-> [i \in 1..entry_offsets_len |->
                                   get_u16(bytes, data_end + SIZEOF_U16 * (i - 1) - 1)]]

\* data_end taken with saturating_sub, so that a count too large for the
\* input leaves an empty block
BlockDecode_Saturating(bytes) ==
    IF Len(bytes) < SIZEOF_U16 THEN [ok |-> FALSE]
    ELSE LET entry_offsets_len == get_u16(bytes, Len(bytes) - SIZEOF_U16 + 1)
             data_end == Len(bytes) - SIZEOF_U16 - entry_offsets_len * SIZEOF_U16
         IN  IF data_end < 0 THEN [ok |-> TRUE, data |-> <<>>, offsets |-> <<>>]
             ELSE [ok      |-> TRUE,
                   data    |-> SubSeq(bytes, 1, data_end),
                   offsets |-> [i \in 1..entry_offsets_len |->
                                   get_u16(bytes, data_end + SIZEOF_U16 * (i - 1) + 1)]]

\* decode panics (no Block) when a slice bound falls outside the input
BlockDecode(bytes) ==
    IF Len(bytes) < SIZEOF_U16 THEN [ok |-> FALSE]
    ELSE LET entry_offsets_len == get_u16(bytes, Len(bytes) - SIZEOF_U16 + 1)
             data_end == Len(bytes) - SIZEOF_U16 - entry_offsets_len * SIZEOF_U16
         IN  IF data_end < 0 THEN [ok |-> FALSE]
             ELSE [ok      |-> TRUE,
                   data    |-> SubSeq(bytes, 1, data_end),
                   offsets |-> [i \in 1..entry_offsets_len |->
                                   get_u16(bytes, data_end + SIZEOF_U16 * (i - 1) + 1)]]

(***************************************************************************)
(* Operations on a builder, and on the block it builds                     *)
(***************************************************************************)
MaxAdds == 3
BigKeyLen == 65536

BigKey == [i \in 1..BigKeyLen |-> 1]

BlockKeys == {<<1>>, <<1, 2>>, <<2>>, BigKey}
BlockValues == {<<>>, <<5, 6>>}
\* small blocks, and one that takes more than 2^16 bytes of data
BlockSizes == {8, 16, 18, 24, 40, 2 * U16Mod}

Add(key, value) ==
    /\ bpc = "building"
    /\ budget > 0
    /\ budget' = budget - 1
    /\ Len(key) > 0          \* assert!(!key.is_empty())
    /\ IF AddRejects(builder, key, value)
       THEN /\ ret' = "false"
            /\ UNCHANGED <<builder, added>>
       ELSE /\ ret' = "true"
            /\ builder' = AddEntry(builder, key, value)
            /\ added' = Append(added, [key |-> key, value |-> value])
    /\ UNCHANGED <<bpc, block, encoded, decoded>>
    /\ UNCHANGED <<mergeVars, sstVars, restVars>>

Build ==
    /\ bpc = "building"
    /\ ~is_empty(builder)
    /\ bpc' = "built"
    /\ block' = BuildBlock(builder)
    /\ builder' = None       \* build(self) consumes the builder
    /\ UNCHANGED <<added, ret, budget, encoded, decoded>>
    /\ UNCHANGED <<mergeVars, sstVars, restVars>>

Encode ==
    /\ bpc = "built"
    /\ bpc' = "encoded"
    /\ encoded' = BlockEncode(block)
    /\ UNCHANGED <<builder, added, ret, budget, block, decoded>>
    /\ UNCHANGED <<mergeVars, sstVars, restVars>>

Decode ==
    /\ bpc = "encoded"
    /\ bpc' = "decoded"
    /\ decoded' = BlockDecode(encoded)
    /\ UNCHANGED <<builder, added, ret, budget, block, encoded>>
    /\ UNCHANGED <<mergeVars, sstVars, restVars>>

\* Block::decode called on bytes that no builder produced
DecodeInput ==
    /\ bpc = "raw"
    /\ bpc' = "rawdone"
    /\ decoded' = BlockDecode(encoded)
    /\ UNCHANGED <<builder, added, ret, budget, block, encoded>>
    /\ UNCHANGED <<mergeVars, sstVars, restVars>>

MaxRawLen == 4
RawBytes == {0, 1, 2}

\* every byte string over RawBytes of at most MaxRawLen bytes
RawInputs == UNION {[1..n -> RawBytes] : n \in 0..MaxRawLen}

BlockIdle ==
    /\ builder = BlockBuilderNew(0)
    /\ added = <<>>
    /\ ret = "none"
    /\ budget = 0
    /\ bpc = "idle"
    /\ block = None
    /\ encoded = <<>>
    /\ decoded = None

BlockStart ==
    /\ \E bs \in BlockSizes : builder = BlockBuilderNew(bs)
    /\ added = <<>>
    /\ ret = "none"
    /\ budget = MaxAdds
    /\ bpc = "building"
    /\ block = None
    /\ encoded = <<>>
    /\ decoded = None

RawStart ==
    /\ builder = BlockBuilderNew(0)
    /\ added = <<>>
    /\ ret = "none"
    /\ budget = 0
    /\ bpc = "raw"
    /\ block = None
    /\ encoded \in RawInputs
    /\ decoded = None

(***************************************************************************)
(* A builder that holds many entries.  The builder that accepted n calls   *)
(* add(key, value) with one key and one value is written out directly:     *)
(* the first entry carries the key (overlap 0), every later entry overlaps *)
(* the first key in full and carries no key bytes.                         *)
(***************************************************************************)
MaxCountAdds == 2

\* the bytes add appends for the first entry, and for each later one
FirstEntryBytes(key, value) ==
    put_u16(0) \o put_u16(AsU16(Len(key))) \o key \o put_u16(AsU16(Len(value))) \o value

LaterEntryBytes(key, value) ==
    put_u16(AsU16(Len(key))) \o put_u16(0) \o put_u16(AsU16(Len(value))) \o value

\* the BlockBuilder after n accepted calls add(key, value)
BuilderAfter(n, key, value, block_size) ==
    LET first == FirstEntryBytes(key, value)
        later == LaterEntryBytes(key, value)
        fl    == Len(first)
        ll    == Len(later)
    IN  [offsets    |-> [i \in 1..n |-> AsU16(IF i = 1 THEN 0 ELSE fl + (i - 2) * ll)],
         data       |-> [p \in 1..(IF n = 0 THEN 0 ELSE fl + (n - 1) * ll) |->
                            IF p <= fl THEN first[p] ELSE later[((p - fl - 1) % ll) + 1]],
         block_size |-> block_size,
         first_key  |-> IF n = 0 THEN <<>> ELSE key]

BuilderOf(cb) == BuilderAfter(cb.n, cb.key, cb.value, cb.block_size)

\* add(key, value) with the key and the value of the entries held
CountAdd ==
    /\ crt = None
    /\ cadds > 0
    /\ cadds' = cadds - 1
    /\ IF AddRejects(BuilderOf(cbuilder), cbuilder.key, cbuilder.value)
       THEN /\ cret' = "false"
            /\ UNCHANGED cbuilder
       ELSE /\ cret' = "true"
            /\ cbuilder' = [cbuilder EXCEPT !.n = @ + 1]
    /\ UNCHANGED crt
    /\ UNCHANGED <<mergeVars, blockVars, sstVars>>
    /\ UNCHANGED <<bloomVars, metaVars, fileVars, cacheVars, shareVars>>

\* build(), encode() and Block::decode of the bytes
CountRoundTrip ==
    /\ crt = None
    /\ cbuilder.n > 0        \* build panics on an empty builder
    /\ LET blk == BuildBlock(BuilderOf(cbuilder))
           d   == BlockDecode(BlockEncode(blk))
       IN  crt' = [entries         |-> Len(blk.offsets),
                   ok              |-> d.ok,
                   same_data       |-> d.ok /\ d.data = blk.data,
                   same_offsets    |-> d.ok /\ d.offsets = blk.offsets,
                   decoded_entries |-> IF d.ok THEN Len(d.offsets) ELSE 0]
    /\ UNCHANGED <<cbuilder, cadds, cret>>
    /\ UNCHANGED <<mergeVars, blockVars, sstVars>>
    /\ UNCHANGED <<bloomVars, metaVars, fileVars, cacheVars, shareVars>>

CountIdle ==
    /\ cbuilder = [n |-> 0, key |-> <<>>, value |-> <<>>, block_size |-> 0]
    /\ cadds = 0
    /\ cret = "none"
    /\ crt = None

CountKeys == {<<1>>, <<1, 2>>, <<2, 1, 3>>}
CountValues == {<<>>, <<5>>, <<5, 6>>}

\* a new builder of a small block size or of 2^20, or the builder of 2^20
\* that accepted 2^16 - 1 calls add([1], [])
CountStart ==
    /\ \/ /\ \E key \in CountKeys, value \in CountValues, bs \in {16, 24, 16 * U16Mod} :
                cbuilder = [n |-> 0, key |-> key, value |-> value, block_size |-> bs]
          /\ cadds = MaxCountAdds
       \/ /\ cbuilder = [n |-> U16Mod - 1, key |-> <<1>>, value |-> <<>>,
                          block_size |-> 16 * U16Mod]
          /\ cadds = MaxCountAdds - 1
    /\ cret = "none"
    /\ crt = None

(***************************************************************************)
(* SsTable: block metadata and find_block_idx                              *)
(***************************************************************************)
num_of_blocks(t) == Len(t.block_meta)

saturating_sub(a, b) == IF a < b THEN 0 ELSE a - b

\* the predicate handed to partition_point, taken strictly
FirstKeyLe_Strict(meta, key) == KeyLt(meta.first_key, key)

\* the predicate taken on the block's last key
FirstKeyLe_LastKey(meta, key) == KeyLe(meta.last_key, key)

\* |meta| meta.first_key.as_key_slice() <= key
FirstKeyLe(meta, key) == KeyLe(meta.first_key, key)

\* the loop of the standard library's binary search under
\* slice::partition_point: it keeps a base and a size, probes the element at
\* base + size / 2, moves base there when the predicate holds of it, and
\* takes the half off size until size is 1.  It returns the last base
\* (0-based).  On a slice that the predicate does not partition this is
\* the index the library arrives at, no first or last index of anything.
RECURSIVE PartitionLoop(_, _, _, _)
PartitionLoop(metas, key, base, size) ==
    IF size <= 1 THEN base
    ELSE LET half == size \div 2
             mid  == base + half
         IN  PartitionLoop(metas, key,
                           IF FirstKeyLe(metas[mid + 1], key) THEN mid ELSE base,
                           size - half)

\* self.block_meta.partition_point(|meta| meta.first_key <= key): 0 on an
\* empty slice, else the last base, plus one when the predicate holds of it
partition_point(metas, key) ==
    IF Len(metas) = 0 THEN 0
    ELSE LET base == PartitionLoop(metas, key, 0, Len(metas))
         IN  IF FirstKeyLe(metas[base + 1], key) THEN base + 1 ELSE base

find_block_idx(t, key) == saturating_sub(partition_point(t.block_meta, key), 1)

\* read_block_cached(idx) of an intact file: the decoded entries of block idx
read_block_cached(t, blk_idx) == t.blocks[blk_idx + 1]

(***************************************************************************)
(* BlockIterator: a cursor [block, idx] over the entries of one block      *)
(***************************************************************************)
BlockIterSeekToFirst(blk) == [block |-> blk, idx |-> 0]

BlockIterSeekToKey(blk, key) ==
    LET ge == {i \in 1..Len(blk) : KeyLe(key, blk[i].key)}
    IN  [block |-> blk,
         idx   |-> IF ge = {} THEN Len(blk)
                   ELSE (CHOOSE i \in ge : \A j \in ge : i <= j) - 1]

BlockIterIsValid(bi) == bi.idx < Len(bi.block)
BlockIterKey(bi) == bi.block[bi.idx + 1].key
BlockIterValue(bi) == bi.block[bi.idx + 1].value
BlockIterNext(bi) == IF BlockIterIsValid(bi) THEN [bi EXCEPT !.idx = @ + 1] ELSE bi

(***************************************************************************)
(* SsTableIterator                                                         *)
(***************************************************************************)
seek_to_first_inner(t) ==
    [blk_idx |-> 0, blk_iter |-> BlockIterSeekToFirst(read_block_cached(t, 0))]

\* the step into the following block left out
seek_to_key_inner_NoCross(t, key) ==
    LET blk_idx == find_block_idx(t, key)
    IN  [blk_idx  |-> blk_idx,
         blk_iter |-> BlockIterSeekToKey(read_block_cached(t, blk_idx), key)]

seek_to_key_inner(t, key) ==
    LET blk_idx  == find_block_idx(t, key)
        blk_iter == BlockIterSeekToKey(read_block_cached(t, blk_idx), key)
    IN  IF ~BlockIterIsValid(blk_iter)
        THEN IF blk_idx + 1 < num_of_blocks(t)
             THEN [blk_idx  |-> blk_idx + 1,
                   blk_iter |-> BlockIterSeekToFirst(read_block_cached(t, blk_idx + 1))]
             ELSE [blk_idx |-> blk_idx + 1, blk_iter |-> blk_iter]
        ELSE [blk_idx |-> blk_idx, blk_iter |-> blk_iter]

SstIsValid(it) == BlockIterIsValid(it.blk_iter)
SstKey(it) == BlockIterKey(it.blk_iter)
SstValue(it) == BlockIterValue(it.blk_iter)

\* the range test off by one: the last block is never loaded
SsTableIteratorNext_SkipLast(t, it) ==
    LET bi == BlockIterNext(it.blk_iter)
    IN  IF ~BlockIterIsValid(bi)
        THEN IF it.blk_idx + 2 < num_of_blocks(t)
             THEN [blk_idx  |-> it.blk_idx + 1,
                   blk_iter |-> BlockIterSeekToFirst(read_block_cached(t, it.blk_idx + 1))]
             ELSE [blk_idx |-> it.blk_idx + 1, blk_iter |-> bi]
        ELSE [blk_idx |-> it.blk_idx, blk_iter |-> bi]

\* blk_idx left as it was when the following block is loaded
SsTableIteratorNext_KeepIdx(t, it) ==
    LET bi == BlockIterNext(it.blk_iter)
    IN  IF ~BlockIterIsValid(bi)
        THEN IF it.blk_idx + 1 < num_of_blocks(t)
             THEN [blk_idx  |-> it.blk_idx,
                   blk_iter |-> BlockIterSeekToFirst(read_block_cached(t, it.blk_idx + 1))]
             ELSE [blk_idx |-> it.blk_idx + 1, blk_iter |-> bi]
        ELSE [blk_idx |-> it.blk_idx, blk_iter |-> bi]

\* SsTableIterator::next
SsTableIteratorNext(t, it) ==
    LET bi == BlockIterNext(it.blk_iter)
    IN  IF ~BlockIterIsValid(bi)
        THEN IF it.blk_idx + 1 < num_of_blocks(t)
             THEN [blk_idx  |-> it.blk_idx + 1,
                   blk_iter |-> BlockIterSeekToFirst(read_block_cached(t, it.blk_idx + 1))]
             ELSE [blk_idx |-> it.blk_idx + 1, blk_iter |-> bi]
        ELSE [blk_idx |-> it.blk_idx, blk_iter |-> bi]

SstObserve(it, sofar) ==
    IF SstIsValid(it)
    THEN Append(sofar, [key |-> SstKey(it), value |-> SstValue(it)])
    ELSE sofar

\* create_and_seek_to_first, and seek_to_first on an existing iterator;
\* reading block 0 of a table without blocks panics: no iterator results
SeekToFirst ==
    /\ num_of_blocks(table) > 0
    /\ iter' = seek_to_first_inner(table)
    /\ target' = [kind |-> "first"]
    /\ nexts' = 0
    /\ seen' = SstObserve(iter', <<>>)
    /\ UNCHANGED <<table, found>>
    /\ UNCHANGED <<mergeVars, blockVars, restVars>>

\* create_and_seek_to_key, and seek_to_key on an existing iterator
SeekToKey(key) ==
    /\ num_of_blocks(table) > 0
    /\ iter' = seek_to_key_inner(table, key)
    /\ target' = [kind |-> "key", key |-> key]
    /\ nexts' = 0
    /\ seen' = SstObserve(iter', <<>>)
    /\ UNCHANGED <<table, found>>
    /\ UNCHANGED <<mergeVars, blockVars, restVars>>

\* next() calls made on an iterator that is no longer valid
MaxIdleNexts == 2

SstNext ==
    /\ iter # None
    /\ SstIsValid(iter) \/ iter.blk_idx < num_of_blocks(table) + MaxIdleNexts
    /\ iter' = SsTableIteratorNext(table, iter)
    /\ nexts' = nexts + 1
    /\ seen' = SstObserve(iter', seen)
    /\ UNCHANGED <<table, target, found>>
    /\ UNCHANGED <<mergeVars, blockVars, restVars>>

FindBlockIdx(key) ==
    /\ found' = [key |-> key, idx |-> find_block_idx(table, key)]
    /\ UNCHANGED <<table, iter, target, nexts, seen>>
    /\ UNCHANGED <<mergeVars, blockVars, restVars>>

(***************************************************************************)
(* Tables: the blocks hold a strictly increasing run of keys, cut into     *)
(* non-empty blocks; block_meta carries each block's first and last key.   *)
(* A table without blocks is what create_meta_only returns.                *)
(***************************************************************************)
MaxSstKeys == 5

\* <<0, 1>>, <<1>>, <<1, 1>>, <<2>>, <<2, 1>>, ... in increasing order
KeyOf(i) == IF i % 2 = 1 THEN <<(i + 1) \div 2>> ELSE <<i \div 2, 1>>

SstKeys == {KeyOf(i) : i \in 1..MaxSstKeys}
SeekKeys == {KeyOf(i) : i \in 0..(MaxSstKeys + 1)}

EntryOf(k) == [key |-> k, value |-> <<100 + Len(k), k[1]>>]

\* the runs of ks that start at the positions in starts
BlocksOf(ks, starts) ==
    LET ord == SortedSeq({<<c>> : c \in starts})
        from(j) == ord[j][1]
        to(j) == IF j = Len(ord) THEN Len(ks) ELSE ord[j + 1][1] - 1
    IN  [j \in 1..Len(ord) |-> [i \in 1..(to(j) - from(j) + 1) |-> EntryOf(ks[from(j) + i - 1])]]

\* bytes a block occupies in the file: the encoded block and its CRC32
BlockFileLen(entries) == 
    LET RECURSIVE fill(_, _)
        fill(b, i) == IF i > Len(entries) THEN b
                      ELSE fill(AddEntry(b, entries[i].key, entries[i].value), i + 1)
    IN  Len(BlockEncode(BuildBlock(fill(BlockBuilderNew(0), 1)))) + 4

RECURSIVE OffsetOf(_, _)
OffsetOf(blocks, j) ==
    IF j = 1 THEN 0 ELSE OffsetOf(blocks, j - 1) + BlockFileLen(blocks[j - 1])

TableOf(blocks) ==
    [block_meta |-> [j \in 1..Len(blocks) |->
                        [offset    |-> OffsetOf(blocks, j),
                         first_key |-> blocks[j][1].key,
                         last_key  |-> blocks[j][Len(blocks[j])].key]],
     blocks |-> blocks,
     block_meta_offset |-> OffsetOf(blocks, Len(blocks) + 1)]

SstIdle ==
    /\ table = TableOf(<<>>)
    /\ iter = None
    /\ target = [kind |-> "idle"]
    /\ nexts = 0
    /\ seen = <<>>
    /\ found = None

SstStart ==
    /\ \E S \in SUBSET SstKeys :
         LET ks == SortedSeq(S)
         IN  \E cuts \in SUBSET (2..Len(ks)) :
                table = TableOf(BlocksOf(ks, IF S = {} THEN {} ELSE {1} \cup cuts))
    /\ iter = None
    /\ target = [kind |-> "none"]
    /\ nexts = 0
    /\ seen = <<>>
    /\ found = None

(***************************************************************************)
(* Tables as SsTable::open returns them from any file: open does not look  *)
(* at the order of block_meta, so the first keys come in any order, and    *)
(* repeated.  The blocks hold one entry each, or a second entry with a     *)
(* key above all first keys.                                               *)
(***************************************************************************)
MaxIndexBlocks == 5

IndexKeys == {KeyOf(i) : i \in 1..3}
IndexSeekKeys == {KeyOf(i) : i \in 0..4}

IndexBlock(k, two) ==
    IF two THEN <<EntryOf(k), EntryOf(KeyOf(4))>> ELSE <<EntryOf(k)>>

IndexTables ==
    UNION {{TableOf([j \in 1..n |-> IndexBlock(ks[j], two)]) :
               ks \in [1..n -> IndexKeys], two \in BOOLEAN} : n \in 0..MaxIndexBlocks}

IndexStart ==
    /\ table \in IndexTables
    /\ iter = None
    /\ target = [kind |-> "none"]
    /\ nexts = 0
    /\ seen = <<>>
    /\ found = None

(***************************************************************************)
(* 32-bit and 64-bit unsigned integers.  A value is kept as a pair         *)
(* <<hi, lo>> standing for hi * 2^16 + lo, with lo < 2^16; a u32 has       *)
(* hi < 2^16 as well.                                                      *)
(***************************************************************************)
Wide(n) == <<n \div U16Mod, n % U16Mod>>

WideLe(a, b) == a[1] < b[1] \/ (a[1] = b[1] /\ a[2] <= b[2])

WideAdd(a, b) ==
    LET lo == a[2] + b[2]
    IN  <<a[1] + b[1] + lo \div U16Mod, lo % U16Mod>>

\* a - b, for b <= a
WideSub(a, b) ==
    IF a[2] >= b[2] THEN <<a[1] - b[1], a[2] - b[2]>>
    ELSE <<a[1] - b[1] - 1, a[2] + U16Mod - b[2]>>

\* a * n for a small n
WideMul(a, n) ==
    LET lo == a[2] * n
    IN  <<a[1] * n + lo \div U16Mod, lo % U16Mod>>

\* a / 8
WideDiv8(a) == <<a[1] \div 8, ((a[1] % 8) * U16Mod + a[2]) \div 8>>

WideMax(a, b) == IF WideLe(a, b) THEN b ELSE a

\* `x as u32`
AsU32(a) == <<a[1] % U16Mod, a[2]>>

\* u32::wrapping_add
wrapping_add(a, b) == AsU32(WideAdd(a, b))

\* h % n for a u32 h and n > 0.  Below 2^23 the remainder is taken byte by
\* byte of h; from there on the quotient is below 2^9 and is looked up.
WideRem(h, n) ==
    IF ~WideLe(n, h) THEN h
    ELSE IF n[1] < 128
    THEN LET m  == n[1] * U16Mod + n[2]
             r1 == (h[1] \div 256) % m
             r2 == (r1 * 256 + (h[1] % 256)) % m
             r3 == (r2 * 256 + h[2] \div 256) % m
         IN  Wide((r3 * 256 + (h[2] % 256)) % m)
    ELSE LET q == CHOOSE x \in 1..511 :
                     /\ WideLe(WideMul(n, x), h)
                     /\ ~WideLe(WideMul(n, x + 1), h)
         IN  WideSub(h, WideMul(n, q))

(***************************************************************************)
(* Bloom filter (table/bloom.rs).  The filter bytes are kept as their      *)
(* length (in bytes) and the set of the indices of the bits that are set.  *)
(***************************************************************************)
\* BitSlice::bit_len
bit_len(f) == WideMul(f.len, 8)

\* BitSlice::get_bit: self.as_ref()[idx / 8] panics when idx / 8 is not
\* below the length of the slice
get_bit(f, idx) ==
    IF WideLe(f.len, WideDiv8(idx)) THEN "panic" ELSE idx \in f.ones

\* (h >> 17) | (h << 15)
Delta(h) ==
    <<(h[1] % 2) * 32768 + h[2] \div 2, (h[2] % 2) * 32768 + h[1] \div 2>>

\* h after i rounds of h = h.wrapping_add(delta): h + i * delta mod 2^32
HashAt(h, delta, i) == wrapping_add(h, WideMul(delta, i))

\* k taken as the nearest integer to bits_per_key * 0.69
BloomK_Round(bits_per_key) ==
    IF bits_per_key[1] > 0 THEN 30
    ELSE LET k == (bits_per_key[2] * 69 + 50) \div 100
         IN  IF k > 30 THEN 30 ELSE IF k < 1 THEN 1 ELSE k

\* (bits_per_key as f64 * 0.69) as u32, then .min(30).max(1): the cast
\* drops the fraction
BloomK(bits_per_key) ==
    IF bits_per_key[1] > 0 THEN 30
    ELSE LET k == (bits_per_key[2] * 69) \div 100
         IN  IF k > 30 THEN 30 ELSE IF k < 1 THEN 1 ELSE k

\* the bit positions on which build calls set_bit(bit_pos, true) for hash h:
\* (h as usize) % nbits in each of the k rounds
BuildPositions(h, k, nbits) ==
    {WideRem(HashAt(h, Delta(h), i), nbits) : i \in 0..(k - 1)}

build_from_key_hashes(keys, bits_per_key) ==
    LET k      == BloomK(bits_per_key)
        nbits0 == WideMax(WideMul(bits_per_key, Len(keys)), Wide(64))
        nbytes == WideDiv8(WideAdd(nbits0, Wide(7)))
        nbits  == WideMul(nbytes, 8)
    IN  [filter |-> [len  |-> nbytes,      \* filter.resize(nbytes, 0)
                     ones |-> UNION {BuildPositions(keys[j], k, nbits) :
                                        j \in 1..Len(keys)}],
         k      |-> k]

\* the loop of may_contain from round i on: the first bit found unset
\* returns false, a bit_pos outside the filter panics in get_bit
RECURSIVE MayContainLoop(_, _, _, _)
MayContainLoop(b, h, nbits, i) ==
    IF i >= b.k THEN "true"
    ELSE LET bit_pos == WideRem(HashAt(h, Delta(h), i), nbits)
         IN  IF WideLe(b.filter.len, WideDiv8(bit_pos)) THEN "panic"
             ELSE IF ~get_bit(b.filter, bit_pos) THEN "false"
             ELSE MayContainLoop(b, h, nbits, i + 1)

\* the query without its escape for k > 30
may_contain_NoEscape(b, h) ==
    LET nbits == AsU32(bit_len(b.filter))
    IN  IF b.k = 0 THEN "true"
        ELSE IF nbits = <<0, 0>> THEN "panic"
        ELSE MayContainLoop(b, h, nbits, 0)

\* Bloom::may_contain: "true", "false", or "panic" when h % (nbits as u32)
\* divides by zero
may_contain(b, h) ==
    IF b.k > 30 THEN "true"
    ELSE LET nbits == AsU32(bit_len(b.filter))
         IN  IF b.k = 0 THEN "true"
             ELSE IF nbits = <<0, 0>> THEN "panic"
             ELSE MayContainLoop(b, h, nbits, 0)

\* Buf::get_u32 on the four bytes at 1-based position i
get_u32(bytes, i) ==
    <<bytes[i] * 256 + bytes[i + 1], bytes[i + 2] * 256 + bytes[i + 3]>>

\* BufMut::put_u32 of a u32
put_u32(a) == <<a[1] \div 256, a[1] % 256, a[2] \div 256, a[2] % 256>>

(***************************************************************************)
(* crc32fast::hash: CRC-32 (IEEE 802.3), bit by bit.  The 32-bit register  *)
(* is kept as the set of the indices of its bits that are 1.               *)
(***************************************************************************)
\* the reflected polynomial 0xEDB88320
CrcPoly == {5, 8, 9, 15, 19, 20, 21, 23, 24, 26, 27, 29, 30, 31}

Xor(a, b) == (a \ b) \cup (b \ a)

ByteBits(b) == {i \in 0..7 : (b \div 2 ^ i) % 2 = 1}

\* crc = (crc >> 1) ^ (poly if crc & 1)
CrcShift(c) ==
    LET sh == {i - 1 : i \in c \ {0}}
    IN  IF 0 \in c THEN Xor(sh, CrcPoly) ELSE sh

CrcByte(c, b) ==
    CrcShift(CrcShift(CrcShift(CrcShift(
    CrcShift(CrcShift(CrcShift(CrcShift(Xor(c, ByteBits(b))))))))))

\* the register c after the bytes from position i on; c is a set of bit
\* indices in every round
RECURSIVE CrcLoop(_, _, _)
CrcLoop(bytes, i, c) ==
    IF i > Len(bytes) \/ ~(c \subseteq 0..31) THEN c
    ELSE CrcLoop(bytes, i + 1, CrcByte(c, bytes[i]))

\* the number whose bits i (0..n) are the members base + i of c
RECURSIVE PackBits(_, _, _)
PackBits(c, base, n) ==
    IF n < 0 THEN 0
    ELSE (IF base + n \in c THEN 2 ^ n ELSE 0) + PackBits(c, base, n - 1)

crc32(bytes) ==
    LET c == (0..31) \ CrcLoop(bytes, 1, 0..31)
    IN  <<PackBits(c, 16, 15), PackBits(c, 0, 15)>>

(***************************************************************************)
(* Bloom::encode and Bloom::decode                                         *)
(***************************************************************************)
\* the bytes of a filter, all f.len of them
FilterBytes(f) ==
    [p \in 1..(f.len[1] * U16Mod + f.len[2]) |->
        PackBits({o \in 0..7 : WideAdd(WideMul(Wide(p - 1), 8), Wide(o)) \in f.ones}, 0, 7)]

\* the number of bytes encode appends to buf: the filter, k, the checksum
BloomEncodeLen(b) == WideAdd(b.filter.len, Wide(5))

\* the filter made of given bytes
FilterOfBytes(bytes) ==
    [len  |-> Wide(Len(bytes)),
     ones |-> UNION {{Wide(8 * (p - 1) + o) : o \in ByteBits(bytes[p])} :
                        p \in 1..Len(bytes)}]

BloomEncode(b) ==
    LET body == FilterBytes(b.filter) \o <<b.k>>
    IN  body \o put_u32(crc32(body))

\* decode panics when a slice bound falls outside buf
BloomDecode(buf) ==
    LET n == Len(buf)
    IN  IF n < 4 THEN [kind |-> "panic"]
        ELSE IF get_u32(buf, n - 3) # crc32(SubSeq(buf, 1, n - 4))
        THEN [kind |-> "err", msg |-> "checksum mismatched for bloom filters"]
        ELSE IF n < 5 THEN [kind |-> "panic"]
        ELSE [kind  |-> "ok",
              bloom |-> [filter |-> FilterOfBytes(SubSeq(buf, 1, n - 5)),
                         k      |-> buf[n - 4]]]

(***************************************************************************)
(* Operations on a Bloom filter                                            *)
(***************************************************************************)
MaxBloomKeys == 2

\* hashes: 0, 9, 2^32 - 1, 2^31 + 1
BloomHashes == {<<0, 0>>, <<0, 9>>, <<65535, 65535>>, <<32768, 1>>}

\* bits_per_key: 0, 1, 4, 10, 100, and 2^32 + 8
BitsPerKey == {Wide(0), Wide(1), Wide(4), Wide(10), Wide(100), <<65536, 8>>}

\* the k bytes a decoded filter is given
DecodedKs == {0, 30, 31, 255}

BloomBuild ==
    /\ blpc = "new"
    /\ blpc' = "built"
    /\ bloom' = build_from_key_hashes(bkeys, bpk)
    /\ UNCHANGED <<bkeys, bpk, probe>>
    /\ UNCHANGED <<mergeVars, blockVars, sstVars, metaVars, fileVars, cacheVars, shareVars, countVars>>

MayContain(h) ==
    /\ blpc \in {"built", "decoded"}
    /\ probe' = [h |-> h, ret |-> may_contain(bloom, h)]
    /\ UNCHANGED <<bkeys, bpk, bloom, blpc>>
    /\ UNCHANGED <<mergeVars, blockVars, sstVars, metaVars, fileVars, cacheVars, shareVars, countVars>>

\* the filter written by encode with the byte k after it, and decoded
BloomRecode(k) ==
    /\ blpc = "built"
    /\ bloom.filter.len[1] = 0
    /\ LET r == BloomDecode(BloomEncode([bloom EXCEPT !.k = k]))
       IN  /\ r.kind = "ok"
           /\ bloom' = r.bloom
    /\ blpc' = "decoded"
    /\ probe' = None
    /\ UNCHANGED <<bkeys, bpk>>
    /\ UNCHANGED <<mergeVars, blockVars, sstVars, metaVars, fileVars, cacheVars, shareVars, countVars>>

BloomIdle ==
    /\ bkeys = <<>>
    /\ bpk = <<0, 0>>
    /\ bloom = None
    /\ probe = None
    /\ blpc = "idle"

BloomStart ==
    /\ bkeys \in UNION {[1..n -> BloomHashes] : n \in 0..MaxBloomKeys}
    /\ bpk \in BitsPerKey
    /\ bloom = None
    /\ probe = None
    /\ blpc = "new"

(***************************************************************************)
(* BlockMeta::encode_block_meta and decode_block_meta (table.rs).  A       *)
(* BlockMeta is [offset, first_key, last_key].                             *)
(***************************************************************************)
\* the bytes written for one entry
MetaEntryBytes(m) ==
    put_u32(AsU32(Wide(m.offset)))
        \o put_u16(AsU16(Len(m.first_key))) \o m.first_key
        \o put_u16(AsU16(Len(m.last_key))) \o m.last_key

\* the bytes written for the entries from i on
RECURSIVE MetaEntriesBytes(_, _)
MetaEntriesBytes(block_meta, i) ==
    IF i > Len(block_meta) THEN <<>>
    ELSE MetaEntryBytes(block_meta[i]) \o MetaEntriesBytes(block_meta, i + 1)

\* what encode_block_meta appends to buf: the checksum is taken from
\* original_len + 4 on, after the count
encode_block_meta(block_meta) ==
    LET entries == MetaEntriesBytes(block_meta, 1)
    IN  put_u32(AsU32(Wide(Len(block_meta)))) \o entries \o put_u32(crc32(entries))

\* the loop of decode_block_meta with num entries still to read from position
\* at (1-based) of buf; the Buf getters panic when too few bytes remain
RECURSIVE DecodeMetaLoop(_, _, _, _)
DecodeMetaLoop(buf, at, num, acc) ==
    IF num = <<0, 0>> THEN [panic |-> FALSE, at |-> at, meta |-> acc]
    ELSE IF at + 4 + SIZEOF_U16 - 1 > Len(buf) THEN [panic |-> TRUE]
    ELSE LET first_key_len == get_u16(buf, at + 4)
             p2            == at + 4 + SIZEOF_U16 + first_key_len
         IN  IF p2 + SIZEOF_U16 - 1 > Len(buf) THEN [panic |-> TRUE]
             ELSE LET last_key_len == get_u16(buf, p2)
                      p3           == p2 + SIZEOF_U16 + last_key_len
                  IN  IF p3 - 1 > Len(buf) THEN [panic |-> TRUE]
                      ELSE DecodeMetaLoop(buf, p3, WideSub(num, <<0, 1>>),
                               Append(acc,
                                  [offset    |-> get_u32(buf, at),
                                   first_key |-> SubSeq(buf, at + 4 + SIZEOF_U16, p2 - 1),
                                   last_key  |-> SubSeq(buf, p2 + SIZEOF_U16, p3 - 1)]))

\* `get_u32() as usize`
AsUsize(a) == a[1] * U16Mod + a[2]

\* decode_block_meta: "ok" with the list, "err" with the message of bail!, or
\* "panic".  The checksum is computed first, over all that follows the count
\* but the last four bytes, and compared last, after the entries were read.
decode_block_meta(buf) ==
    IF Len(buf) < 8 THEN [kind |-> "panic"]
    ELSE LET checksum == crc32(SubSeq(buf, 5, Len(buf) - 4))
             r        == DecodeMetaLoop(buf, 5, get_u32(buf, 1), <<>>)
         IN  IF r.panic \/ r.at + 3 > Len(buf) THEN [kind |-> "panic"]
             ELSE IF get_u32(buf, r.at) # checksum
             THEN [kind |-> "err", msg |-> "meta checksum mismatched"]
             ELSE [kind |-> "ok",
                   meta |-> [i \in 1..Len(r.meta) |->
                               [r.meta[i] EXCEPT !.offset = AsUsize(@)]]]

\* bytes with bit number i (from 1; bit 0 of the first byte first) inverted
FlipBit(bytes, i) ==
    LET p == (i - 1) \div 8 + 1
        o == (i - 1) % 8
    IN  [bytes EXCEPT ![p] = IF (@ \div 2 ^ o) % 2 = 1 THEN @ - 2 ^ o ELSE @ + 2 ^ o]

(***************************************************************************)
(* Operations on encoded block metadata                                    *)
(***************************************************************************)
MaxMetas == 2

MetaChoices ==
    {[offset |-> 0,     first_key |-> <<1>>, last_key |-> <<1, 2>>],
     [offset |-> 300,   first_key |-> <<2>>, last_key |-> <<2>>],
     [offset |-> 70000, first_key |-> <<>>,  last_key |-> <<3>>]}

MetaEncode ==
    /\ mtpc = "new"
    /\ mtpc' = "encoded"
    /\ metaBuf' = encode_block_meta(metaIn)
    /\ UNCHANGED <<metaIn, metaFlip, metaOut>>
    /\ UNCHANGED <<mergeVars, blockVars, sstVars, bloomVars, fileVars, cacheVars, shareVars, countVars>>

\* one bit of the encoding is inverted before it is decoded
MetaFlip(i) ==
    /\ mtpc = "encoded"
    /\ metaFlip = 0
    /\ i <= 8 * Len(metaBuf)
    /\ metaFlip' = i
    /\ metaBuf' = FlipBit(metaBuf, i)
    /\ UNCHANGED <<metaIn, metaOut, mtpc>>
    /\ UNCHANGED <<mergeVars, blockVars, sstVars, bloomVars, fileVars, cacheVars, shareVars, countVars>>

MetaDecode ==
    /\ mtpc = "encoded"
    /\ mtpc' = "decoded"
    /\ metaOut' = decode_block_meta(metaBuf)
    /\ UNCHANGED <<metaIn, metaBuf, metaFlip>>
    /\ UNCHANGED <<mergeVars, blockVars, sstVars, bloomVars, fileVars, cacheVars, shareVars, countVars>>

MetaIdle ==
    /\ metaIn = <<>>
    /\ metaBuf = <<>>
    /\ metaFlip = 0
    /\ metaOut = None
    /\ mtpc = "idle"

MetaStart ==
    /\ metaIn \in UNION {[1..n -> MetaChoices] : n \in 0..MaxMetas}
    /\ metaBuf = <<>>
    /\ metaFlip = 0
    /\ metaOut = None
    /\ mtpc = "new"

\* the longest encoding: count, MaxMetas entries of at most 11 bytes, checksum
MaxMetaBits == 8 * (4 + MaxMetas * 11 + 4)


(***************************************************************************)
(* The SST file: data blocks, each encoded_block ++ CRC32; the meta        *)
(* section; block_meta_offset (u32); the bloom section; bloom_offset (u32) *)
(***************************************************************************)
\* the builder after the entries from i on were added
RECURSIVE FillBuilder(_, _, _)
FillBuilder(b, entries, i) ==
    IF i > Len(entries) THEN b
    ELSE FillBuilder(AddEntry(b, entries[i].key, entries[i].value), entries, i + 1)

\* the Block holding the given entries
BlockOfEntries(entries) == BuildBlock(FillBuilder(BlockBuilderNew(0), entries, 1))

\* a block as it lies in the file
BlockFileBytes(entries) ==
    LET e == BlockEncode(BlockOfEntries(entries))
    IN  e \o put_u32(crc32(e))

RECURSIVE DataBytes(_, _)
DataBytes(blocks, j) ==
    IF j > Len(blocks) THEN <<>>
    ELSE BlockFileBytes(blocks[j]) \o DataBytes(blocks, j + 1)

\* the hash under which a key goes into the filter
KeyHash(k) == <<Len(k), k[1]>>

\* the Bloom filter written for the keys of the blocks
RECURSIVE KeyHashes(_, _)
KeyHashes(blocks, j) ==
    IF j > Len(blocks) THEN <<>>
    ELSE [i \in 1..Len(blocks[j]) |-> KeyHash(blocks[j][i].key)] \o KeyHashes(blocks, j + 1)

FileBloom(blocks) == build_from_key_hashes(KeyHashes(blocks, 1), Wide(10))

FileOf(blocks) ==
    LET data  == DataBytes(blocks, 1)
        meta  == encode_block_meta(TableOf(blocks).block_meta)
        bloom_section == BloomEncode(FileBloom(blocks))
    IN  data \o meta \o put_u32(Wide(Len(data)))
             \o bloom_section \o put_u32(Wide(Len(data) + Len(meta) + 4))

\* `x as u64` of a usize that a subtraction may have wrapped around: a
\* u64 is written <<0, n>> for n, <<1, d>> for i64::MAX - d and <<2, n>> for
\* 2^64 - n; a negative x stands for 2^64 + x
AsOffset(x) == IF x < 0 THEN <<2, 0 - x>> ELSE <<0, x>>

\* FileObject::read(offset, len), the offset any u64.  read_exact_at reads
\* nothing into an empty buffer and succeeds; the read at an offset above
\* i64::MAX, or of a range that ends above i64::MAX, is refused; a range
\* that passes the end of the file leaves the buffer unfilled
FileRead(f, offset, len) ==
    IF len = 0 THEN [ok |-> TRUE, data |-> <<>>]
    ELSE IF offset[1] = 2 THEN [ok |-> FALSE, msg |-> "Invalid argument (os error 22)"]
    ELSE IF offset[1] = 1
    THEN IF len > offset[2] THEN [ok |-> FALSE, msg |-> "Invalid argument (os error 22)"]
         ELSE [ok |-> FALSE, msg |-> "failed to fill whole buffer"]
    ELSE IF offset[2] + len > Len(f) THEN [ok |-> FALSE, msg |-> "failed to fill whole buffer"]
    ELSE [ok |-> TRUE, data |-> SubSeq(f, offset[2] + 1, offset[2] + len)]

(***************************************************************************)
(* SsTable::open and SsTable::read_block.  Results are "ok", "err" (the    *)
(* Err returned) or "panic".  A subtraction below zero panics in a build   *)
(* with overflow checks (checks = TRUE) and wraps around without them.     *)
(***************************************************************************)
IoError == [kind |-> "err", msg |-> "failed to fill whole buffer"]

\* file.read(..)? on a read that failed
ReadErr(r) == [kind |-> "err", msg |-> r.msg]

\* the last steps of open, from decode_block_meta on
OpenMeta(f, id, bloom_filter, block_meta_offset, raw_meta) ==
    LET m == decode_block_meta(raw_meta)
    IN  IF m.kind # "ok" THEN m
        ELSE IF Len(m.meta) = 0 THEN [kind |-> "panic"]     \* first().unwrap()
        ELSE [kind |-> "ok",
              sst  |-> [id                |-> id,
                        first_key         |-> m.meta[1].first_key,
                        last_key          |-> m.meta[Len(m.meta)].last_key,
                        block_meta        |-> m.meta,
                        block_meta_offset |-> block_meta_offset,
                        bloom             |-> bloom_filter,
                        max_ts            |-> 0]]

\* open from the decoding of the bloom section on.  bloom_offset - 4 below
\* zero panics with overflow checks; without them it wraps and the read at
\* that offset fails.  A length below zero panics in either build: at the
\* subtraction, or wrapped, at vec![0; len] (capacity overflow)
OpenBloom(checks, f, id, bloom_offset, raw_bloom) ==
    LET b == BloomDecode(raw_bloom)
    IN  IF b.kind # "ok" THEN b
        ELSE IF checks /\ bloom_offset < 4 THEN [kind |-> "panic"]
        ELSE LET raw_meta_offset == FileRead(f, AsOffset(bloom_offset - 4), 4)
             IN  IF ~raw_meta_offset.ok THEN ReadErr(raw_meta_offset)
                 ELSE LET block_meta_offset == AsUsize(get_u32(raw_meta_offset.data, 1))
                      IN  IF bloom_offset - 4 < block_meta_offset THEN [kind |-> "panic"]
                          ELSE LET raw_meta == FileRead(f, AsOffset(block_meta_offset),
                                                   bloom_offset - 4 - block_meta_offset)
                               IN  IF ~raw_meta.ok THEN ReadErr(raw_meta)
                                   ELSE OpenMeta(f, id, b.bloom, block_meta_offset,
                                                 raw_meta.data)

\* SsTable::open(id, block_cache, file).  len - 4 below zero panics with
\* overflow checks; without them it wraps and the read at that offset fails
open(checks, id, f) ==
    IF checks /\ Len(f) < 4 THEN [kind |-> "panic"]
    ELSE LET raw_bloom_offset == FileRead(f, AsOffset(Len(f) - 4), 4)
         IN  IF ~raw_bloom_offset.ok THEN ReadErr(raw_bloom_offset)
             ELSE LET bloom_offset == AsUsize(get_u32(raw_bloom_offset.data, 1))
                  IN  IF Len(f) - 4 < bloom_offset THEN [kind |-> "panic"]
                      ELSE LET raw_bloom == FileRead(f, AsOffset(bloom_offset),
                                                     Len(f) - 4 - bloom_offset)
                           IN  IF ~raw_bloom.ok THEN ReadErr(raw_bloom)
                               ELSE OpenBloom(checks, f, id, bloom_offset,
                                              raw_bloom.data)

\* the end of block block_idx: the offset of the block after it, or
\* block_meta_offset for the last block
OffsetEnd(t, block_idx) ==
    IF block_idx + 1 < Len(t.block_meta) THEN t.block_meta[block_idx + 2].offset
    ELSE t.block_meta_offset

\* read_block on a block of fewer than four bytes, offset <= offset_end <
\* offset + 4: block_len = offset_end - offset - 4 panics with overflow
\* checks; without them it wraps, the read follows, and a read that
\* succeeds panics at the slice [..block_len]
ShortBlock(checks, f, offset, offset_end) ==
    IF checks THEN [kind |-> "panic"]
    ELSE LET r == FileRead(f, AsOffset(offset), offset_end - offset)
         IN  IF ~r.ok THEN ReadErr(r) ELSE [kind |-> "panic"]

\* the block decoded without a look at its checksum
read_block_NoCheck(checks, t, f, block_idx) ==
    IF block_idx >= Len(t.block_meta) THEN [kind |-> "panic"]
    ELSE LET offset     == t.block_meta[block_idx + 1].offset
             offset_end == OffsetEnd(t, block_idx)
         IN  IF offset_end < offset THEN [kind |-> "panic"]
             ELSE IF offset_end < offset + 4
             THEN ShortBlock(checks, f, offset, offset_end)
             ELSE LET r == FileRead(f, AsOffset(offset), offset_end - offset)
                  IN  IF ~r.ok THEN ReadErr(r)
                      ELSE LET d == BlockDecode(SubSeq(r.data, 1, offset_end - offset - 4))
                           IN  IF ~d.ok THEN [kind |-> "panic"]
                               ELSE [kind  |-> "ok",
                                     block |-> [data |-> d.data, offsets |-> d.offsets]]

\* SsTable::read_block(block_idx) of the SsTable t over the file f.
\* offset_end below offset panics in either build: at the subtraction, or
\* wrapped, at vec![0; len] in read (capacity overflow)
read_block(checks, t, f, block_idx) ==
    IF block_idx >= Len(t.block_meta) THEN [kind |-> "panic"]
    ELSE LET offset     == t.block_meta[block_idx + 1].offset
             offset_end == OffsetEnd(t, block_idx)
         IN  IF offset_end < offset THEN [kind |-> "panic"]
             ELSE IF offset_end < offset + 4
             THEN ShortBlock(checks, f, offset, offset_end)
             ELSE LET r == FileRead(f, AsOffset(offset), offset_end - offset)
                  IN  IF ~r.ok THEN ReadErr(r)
                      ELSE LET block_len  == offset_end - offset - 4
                               block_data == SubSeq(r.data, 1, block_len)
                           IN  IF get_u32(r.data, block_len + 1) # crc32(block_data)
                               THEN [kind |-> "err", msg |-> "block checksum mismatched"]
                               ELSE LET d == BlockDecode(block_data)
                                    IN  IF ~d.ok THEN [kind |-> "panic"]
                                        ELSE [kind  |-> "ok",
                                              block |-> [data    |-> d.data,
                                                         offsets |-> d.offsets]]

(***************************************************************************)
(* Operations on an SST file                                               *)
(***************************************************************************)
MaxFileKeys == 2

\* the files: the first keys of SstKeys, cut into blocks in every way
FileBlocks ==
    UNION {{BlocksOf(SortedSeq({KeyOf(i) : i \in 1..n}), {1} \cup cuts) :
               cuts \in SUBSET (2..n)} : n \in 1..MaxFileKeys}

Open ==
    /\ fpc = "new"
    /\ opened' = open(overflow_checks, 0, file)
    /\ fpc' = IF opened'.kind = "ok" THEN "opened" ELSE "failed"
    /\ UNCHANGED <<file, fsrc, fflip, rblock, overflow_checks>>
    /\ UNCHANGED <<mergeVars, blockVars, sstVars, bloomVars, metaVars, cacheVars, shareVars, countVars>>

ReadBlock(block_idx) ==
    /\ fpc = "opened"
    /\ block_idx < num_of_blocks(opened.sst)
    /\ rblock' = [idx |-> block_idx, res |-> read_block(overflow_checks, opened.sst, file, block_idx)]
    /\ UNCHANGED <<file, fsrc, fflip, opened, fpc, overflow_checks>>
    /\ UNCHANGED <<mergeVars, blockVars, sstVars, bloomVars, metaVars, cacheVars, shareVars, countVars>>

FileIdle ==
    /\ file = <<>>
    /\ fsrc = <<>>
    /\ fflip = 0
    /\ opened = None
    /\ rblock = None
    /\ fpc = "idle"
    /\ overflow_checks = TRUE

\* where the sections of the file written from blocks start (0-based)
MetaStartOf(blocks) == Len(DataBytes(blocks, 1))
BloomStartOf(blocks) ==
    MetaStartOf(blocks) + Len(encode_block_meta(TableOf(blocks).block_meta)) + 4

\* the bits that may be flipped: those of the data blocks, of the meta section
\* and of the bloom section, not those of the two offsets
FlipChoices(blocks) ==
    LET b == BloomStartOf(blocks)
        n == Len(FileOf(blocks))
    IN  (1..(8 * (b - 4))) \cup ((8 * b + 1)..(8 * (n - 4)))

FileStart ==
    /\ \E blocks \in FileBlocks :
          LET f == FileOf(blocks)
          IN  /\ fsrc = blocks
              /\ \E i \in {0} \cup FlipChoices(blocks) :
                    /\ fflip = i
                    /\ file = IF i = 0 THEN f ELSE FlipBit(f, i)
    /\ opened = None
    /\ rblock = None
    /\ fpc = "new"
    /\ overflow_checks \in BOOLEAN

(***************************************************************************)
(* SsTable::read_block_cached called by several threads on one SsTable.    *)
(* The block cache offers try_get_with(key, loader): a hit returns the     *)
(* Block held; on a miss one caller runs the loader, the callers that      *)
(* arrive meanwhile wait for it and get its result; an Ok is inserted, an  *)
(* Err is not.  The cache may evict what it holds at any time.             *)
(***************************************************************************)
MaxThreads == 2
MaxCalls == 4

Threads == 1..MaxThreads

\* the load of the key is not coalesced with one in flight
LoadInFlight_Never(tp, tk, key) == FALSE

\* some caller is running the loader for the key
LoadInFlight(tp, tk, key) == \E t \in Threads : tp[t] = "loading" /\ tk[t] = key

\* read_block on a file whose read may fail (read_exact_at returns Err)
ReadBlockIo(block_idx, io_ok) ==
    IF io_ok THEN read_block(overflow_checks, opened.sst, file, block_idx) ELSE IoError

\* .map_err(|e| anyhow!("{}", e)): a new error with the message of the
\* loader's
MapErr(r) == IF r.kind = "err" THEN [kind |-> "err", msg |-> r.msg] ELSE r

\* read_block_cached(block_idx) with a cache that holds the block
CacheHit(t, block_idx) ==
    /\ attached
    /\ tpc[t] = "idle"
    /\ ncalls < MaxCalls
    /\ cache[block_idx] # None
    /\ tpc' = [tpc EXCEPT ![t] = "done"]
    /\ tkey' = [tkey EXCEPT ![t] = block_idx]
    /\ tres' = [tres EXCEPT ![t] = [kind |-> "ok", block |-> cache[block_idx]]]
    /\ tvia' = [tvia EXCEPT ![t] = "hit"]
    /\ ncalls' = ncalls + 1
    /\ UNCHANGED <<attached, cache, nloads>>
    /\ UNCHANGED <<mergeVars, blockVars, sstVars, bloomVars, metaVars, fileVars, shareVars, countVars>>

\* read_block_cached(block_idx) with a cache that does not hold the block:
\* the caller runs the loader, or waits for the caller that runs it
CacheMiss(t, block_idx) ==
    /\ attached
    /\ tpc[t] = "idle"
    /\ ncalls < MaxCalls
    /\ cache[block_idx] = None
    /\ tkey' = [tkey EXCEPT ![t] = block_idx]
    /\ ncalls' = ncalls + 1
    /\ IF LoadInFlight(tpc, tkey, block_idx)
       THEN /\ tpc' = [tpc EXCEPT ![t] = "waiting"]
            /\ UNCHANGED nloads
       ELSE /\ tpc' = [tpc EXCEPT ![t] = "loading"]
            /\ nloads' = [nloads EXCEPT ![block_idx] = @ + 1]
    /\ UNCHANGED <<attached, cache, tres, tvia>>
    /\ UNCHANGED <<mergeVars, blockVars, sstVars, bloomVars, metaVars, fileVars, shareVars, countVars>>

\* the loader || self.read_block(block_idx) returns: an Ok is inserted, the
\* caller and the waiters of the key get the result
LoaderReturns(t, io_ok) ==
    /\ tpc[t] = "loading"
    /\ LET r  == ReadBlockIo(tkey[t], io_ok)
           ws == {w \in Threads : tpc[w] = "waiting" /\ tkey[w] = tkey[t]}
       IN  /\ cache' = IF r.kind = "ok" THEN [cache EXCEPT ![tkey[t]] = r.block] ELSE cache
           /\ tpc' = [w \in Threads |-> IF w \in ws \cup {t} THEN "done" ELSE tpc[w]]
           /\ tres' = [w \in Threads |-> IF w \in ws \cup {t} THEN MapErr(r) ELSE tres[w]]
           /\ tvia' = [w \in Threads |-> IF w = t THEN "load"
                                         ELSE IF w \in ws THEN "wait" ELSE tvia[w]]
    /\ UNCHANGED <<attached, tkey, nloads, ncalls>>
    /\ UNCHANGED <<mergeVars, blockVars, sstVars, bloomVars, metaVars, fileVars, shareVars, countVars>>

\* read_block_cached(block_idx) of an SsTable without a cache
ReadBlockUncached(t, block_idx, io_ok) ==
    /\ ~attached
    /\ tpc[t] = "idle"
    /\ ncalls < MaxCalls
    /\ tpc' = [tpc EXCEPT ![t] = "done"]
    /\ tkey' = [tkey EXCEPT ![t] = block_idx]
    /\ tres' = [tres EXCEPT ![t] = ReadBlockIo(block_idx, io_ok)]
    /\ tvia' = [tvia EXCEPT ![t] = "direct"]
    /\ nloads' = [nloads EXCEPT ![block_idx] = @ + 1]
    /\ ncalls' = ncalls + 1
    /\ UNCHANGED <<attached, cache>>
    /\ UNCHANGED <<mergeVars, blockVars, sstVars, bloomVars, metaVars, fileVars, shareVars, countVars>>

\* the caller takes the result and is free to call again
CallerReturns(t) ==
    /\ tpc[t] = "done"
    /\ tpc' = [tpc EXCEPT ![t] = "idle"]
    /\ tres' = [tres EXCEPT ![t] = None]
    /\ tvia' = [tvia EXCEPT ![t] = "none"]
    /\ UNCHANGED <<attached, cache, tkey, nloads, ncalls>>
    /\ UNCHANGED <<mergeVars, blockVars, sstVars, bloomVars, metaVars, fileVars, shareVars, countVars>>

\* the cache drops a block under its own policy
Evict(block_idx) ==
    /\ attached
    /\ cache[block_idx] # None
    /\ cache' = [cache EXCEPT ![block_idx] = None]
    /\ UNCHANGED <<attached, tpc, tkey, tres, tvia, nloads, ncalls>>
    /\ UNCHANGED <<mergeVars, blockVars, sstVars, bloomVars, metaVars, fileVars, shareVars, countVars>>

CacheIdle ==
    /\ attached = FALSE
    /\ cache = <<>>
    /\ tpc = <<>>
    /\ tkey = <<>>
    /\ tres = <<>>
    /\ tvia = <<>>
    /\ nloads = <<>>
    /\ ncalls = 0

\* the SsTable shared by the threads: two blocks of one key each, as
\* written or with the first bit of the first block flipped
SharedBlocks == BlocksOf(SortedSeq({KeyOf(1), KeyOf(2)}), {1, 2})

CacheStart ==
    /\ fsrc = SharedBlocks
    /\ fflip \in {0, 1}
    /\ file = IF fflip = 0 THEN FileOf(fsrc) ELSE FlipBit(FileOf(fsrc), fflip)
    /\ overflow_checks \in BOOLEAN
    /\ opened = open(overflow_checks, 0, file)
    /\ rblock = None
    /\ fpc = "shared"
    /\ attached \in BOOLEAN
    /\ cache = [i \in 0..(Len(fsrc) - 1) |-> None]
    /\ tpc = [t \in Threads |-> "idle"]
    /\ tkey = [t \in Threads |-> 0]
    /\ tres = [t \in Threads |-> None]
    /\ tvia = [t \in Threads |-> "none"]
    /\ nloads = [i \in 0..(Len(fsrc) - 1) |-> 0]
    /\ ncalls = 0

(***************************************************************************)
(* Several SsTableIterators over one Arc<SsTable>, each used by a thread    *)
(* of its own.  A call takes &mut self of its iterator and reads blocks of *)
(* the shared table through the block cache, which the iterators share.    *)
(* A call is a sequence of steps: it starts, each read_block_cached it     *)
(* makes goes through try_get_with of the cache (a hit; or a miss, where   *)
(* the caller runs the loader or waits for the caller that runs it), and   *)
(* it goes on with the block it got.  The steps of the calls interleave in *)
(* any order.  The file is intact: read_block returns the block.           *)
(***************************************************************************)
MaxIters == 2
MaxShareKeys == 3

Iters == 1..MaxIters

\* no call in flight
NoCall == [op |-> "none", then |-> "none", blk_idx |-> 0, key |-> <<>>,
           stage |-> "none", via |-> "none", blk |-> <<>>]

\* the call op has reached read_block_cached(blk_idx); with the block it
\* will do `then`: "first" is create_and_seek_to_first(block), "key" is
\* create_and_seek_to_key(block, key)
Asking(op, then, blk_idx, key) ==
    [op |-> op, then |-> then, blk_idx |-> blk_idx, key |-> key,
     stage |-> "ask", via |-> "none", blk |-> <<>>]

\* read_block(block_idx) of an intact file: the block written
ReadBlockIntact(t, block_idx) == t.blocks[block_idx + 1]

\* some call is running the loader for the block
ShareLoadInFlight(c, blk_idx) ==
    \E j \in Iters : c[j].stage = "load" /\ c[j].blk_idx = blk_idx

\* one cursor behind all the iterators
AssignOwn_Aliased(f, i, v) == [j \in DOMAIN f |-> v]

\* self.blk_idx = ..; self.blk_iter = ..: the fields of the iterator called
AssignOwn(f, i, v) == [f EXCEPT ![i] = v]

\* create_and_seek_to_first, or seek_to_first, of iterator i is called:
\* seek_to_first_inner reaches read_block_cached(0)
ShareSeekToFirst(i) ==
    /\ calls[i].op = "none"
    /\ num_of_blocks(table) > 0
    /\ calls' = [calls EXCEPT ![i] = Asking("first", "first", 0, <<>>)]
    /\ alone' = [alone EXCEPT ![i] = seek_to_first_inner(table)]
    /\ UNCHANGED <<its, scache>>
    /\ UNCHANGED <<mergeVars, blockVars, sstVars, bloomVars, metaVars, fileVars, cacheVars, countVars>>

\* create_and_seek_to_key, or seek_to_key, of iterator i is called:
\* seek_to_key_inner reaches read_block_cached(find_block_idx(key))
ShareSeekToKey(i, key) ==
    /\ calls[i].op = "none"
    /\ num_of_blocks(table) > 0
    /\ calls' = [calls EXCEPT ![i] = Asking("key", "key", find_block_idx(table, key), key)]
    /\ alone' = [alone EXCEPT ![i] = seek_to_key_inner(table, key)]
    /\ UNCHANGED <<its, scache>>
    /\ UNCHANGED <<mergeVars, blockVars, sstVars, bloomVars, metaVars, fileVars, cacheVars, countVars>>

\* next() of iterator i is called: it returns at once, or reaches
\* read_block_cached(self.blk_idx) with blk_idx advanced
ShareNext(i) ==
    /\ calls[i].op = "none"
    /\ its[i] # None
    /\ SstIsValid(its[i]) \/ its[i].blk_idx < num_of_blocks(table) + MaxIdleNexts
    /\ LET bi == BlockIterNext(its[i].blk_iter)
       IN  IF BlockIterIsValid(bi)
           THEN /\ its' = AssignOwn(its, i, [its[i] EXCEPT !.blk_iter = bi])
                /\ UNCHANGED calls
           ELSE /\ its' = AssignOwn(its, i, [blk_idx |-> its[i].blk_idx + 1, blk_iter |-> bi])
                /\ calls' = IF its[i].blk_idx + 1 < num_of_blocks(table)
                            THEN [calls EXCEPT ![i] =
                                      Asking("next", "first", its[i].blk_idx + 1, <<>>)]
                            ELSE calls
    /\ alone' = [alone EXCEPT ![i] = SsTableIteratorNext(table, alone[i])]
    /\ UNCHANGED scache
    /\ UNCHANGED <<mergeVars, blockVars, sstVars, bloomVars, metaVars, fileVars, cacheVars, countVars>>

\* try_get_with finds the block in the cache
ShareCacheHit(i) ==
    /\ calls[i].stage = "ask"
    /\ scache[calls[i].blk_idx + 1] # <<>>
    /\ calls' = [calls EXCEPT ![i].stage = "got", ![i].via = "hit",
                              ![i].blk = scache[calls[i].blk_idx + 1]]
    /\ UNCHANGED <<its, alone, scache>>
    /\ UNCHANGED <<mergeVars, blockVars, sstVars, bloomVars, metaVars, fileVars, cacheVars, countVars>>

\* try_get_with does not find the block: the call runs the loader, or waits
\* for the call that runs it
ShareCacheMiss(i) ==
    /\ calls[i].stage = "ask"
    /\ scache[calls[i].blk_idx + 1] = <<>>
    /\ calls' = [calls EXCEPT ![i].stage =
                     IF ShareLoadInFlight(calls, calls[i].blk_idx) THEN "wait" ELSE "load"]
    /\ UNCHANGED <<its, alone, scache>>
    /\ UNCHANGED <<mergeVars, blockVars, sstVars, bloomVars, metaVars, fileVars, cacheVars, countVars>>

\* the loader || self.read_block(block_idx) of call i returns: the block is
\* inserted, the call and the calls waiting for the block get it
ShareLoaderReturns(i) ==
    /\ calls[i].stage = "load"
    /\ LET blk_idx == calls[i].blk_idx
           blk     == ReadBlockIntact(table, blk_idx)
       IN  /\ scache' = [scache EXCEPT ![blk_idx + 1] = <<blk>>]
           /\ calls' = [j \in Iters |->
                 IF j = i
                 THEN [calls[j] EXCEPT !.stage = "got", !.via = "load", !.blk = <<blk>>]
                 ELSE IF calls[j].stage = "wait" /\ calls[j].blk_idx = blk_idx
                 THEN [calls[j] EXCEPT !.stage = "got", !.via = "wait", !.blk = <<blk>>]
                 ELSE calls[j]]
    /\ UNCHANGED <<its, alone>>
    /\ UNCHANGED <<mergeVars, blockVars, sstVars, bloomVars, metaVars, fileVars, cacheVars, countVars>>

\* the call goes on with the block read_block_cached returned: it assigns
\* the fields of its iterator and returns, or, in seek_to_key_inner with
\* no key of the block at or after the key, reaches read_block_cached of
\* the following block
ShareResume(i) ==
    /\ calls[i].stage = "got"
    /\ LET c   == calls[i]
           blk == c.blk[1]
           bi  == IF c.then = "key" THEN BlockIterSeekToKey(blk, c.key)
                  ELSE BlockIterSeekToFirst(blk)
       IN  IF c.then = "key" /\ ~BlockIterIsValid(bi) /\ c.blk_idx + 1 < num_of_blocks(table)
           THEN /\ calls' = [calls EXCEPT ![i] = Asking(c.op, "first", c.blk_idx + 1, <<>>)]
                /\ UNCHANGED its
           ELSE /\ its' = AssignOwn(its, i,
                              [blk_idx  |-> IF c.then = "key" /\ ~BlockIterIsValid(bi)
                                            THEN c.blk_idx + 1 ELSE c.blk_idx,
                               blk_iter |-> bi])
                /\ calls' = [calls EXCEPT ![i] = NoCall]
    /\ UNCHANGED <<alone, scache>>
    /\ UNCHANGED <<mergeVars, blockVars, sstVars, bloomVars, metaVars, fileVars, cacheVars, countVars>>

\* the cache drops a block under its own policy
ShareEvict(blk_idx) ==
    /\ blk_idx < num_of_blocks(table)
    /\ scache[blk_idx + 1] # <<>>
    /\ scache' = [scache EXCEPT ![blk_idx + 1] = <<>>]
    /\ UNCHANGED <<its, alone, calls>>
    /\ UNCHANGED <<mergeVars, blockVars, sstVars, bloomVars, metaVars, fileVars, cacheVars, countVars>>

\* the steps of the call on iterator i
ShareStepOf(i) ==
    \/ ShareSeekToFirst(i)
    \/ \E key \in {KeyOf(k) : k \in 0..(MaxShareKeys + 1)} : ShareSeekToKey(i, key)
    \/ ShareNext(i)
    \/ ShareCacheHit(i)
    \/ ShareCacheMiss(i)
    \/ ShareLoaderReturns(i)
    \/ ShareResume(i)

ShareIdle ==
    /\ its = <<>>
    /\ alone = <<>>
    /\ scache = <<>>
    /\ calls = <<>>

\* the SsTable of a file written by hand: a block may hold no entry (its
\* bytes are the count 0 and the CRC32), its first and last key in
\* block_meta are then KeyOf of its position
HandTable(blocks) ==
    LET len(j) == IF blocks[j] = <<>> THEN SIZEOF_U16 + 4 ELSE BlockFileLen(blocks[j])
        RECURSIVE off(_)
        off(j) == IF j = 1 THEN 0 ELSE off(j - 1) + len(j - 1)
    IN  [block_meta |-> [j \in 1..Len(blocks) |->
                            [offset    |-> off(j),
                             first_key |-> IF blocks[j] = <<>> THEN KeyOf(j)
                                           ELSE blocks[j][1].key,
                             last_key  |-> IF blocks[j] = <<>> THEN KeyOf(j)
                                           ELSE blocks[j][Len(blocks[j])].key]],
         blocks |-> blocks,
         block_meta_offset |-> off(Len(blocks) + 1)]

\* the tables shared: the first keys of SstKeys, cut into blocks in every
\* way, and tables with a block that holds no entry
ShareTables ==
    UNION {{TableOf(BlocksOf(SortedSeq({KeyOf(i) : i \in 1..n}), {1} \cup cuts)) :
               cuts \in SUBSET (2..n)} : n \in 1..MaxShareKeys}
    \cup {HandTable(<<<<>>, <<EntryOf(KeyOf(2))>>>>),
          HandTable(<<<<EntryOf(KeyOf(1))>>, <<>>>>),
          HandTable(<<<<EntryOf(KeyOf(1))>>, <<>>, <<EntryOf(KeyOf(3))>>>>)}

ShareSeekKeys == {KeyOf(i) : i \in 0..(MaxShareKeys + 1)}

ShareStart ==
    /\ table \in ShareTables
    /\ iter = None
    /\ target = [kind |-> "none"]
    /\ nexts = 0
    /\ seen = <<>>
    /\ found = None
    /\ its = [i \in Iters |-> None]
    /\ alone = [i \in Iters |-> None]
    /\ scache = [j \in 1..num_of_blocks(table) |-> <<>>]
    /\ calls = [i \in Iters |-> NoCall]

(***************************************************************************)
(* The specifications                                                      *)
(***************************************************************************)
RestIdle == BloomIdle /\ MetaIdle /\ FileIdle /\ CacheIdle /\ ShareIdle /\ CountIdle

SstInit == SstStart /\ MergeIdle /\ BlockIdle /\ RestIdle

SstNextStep ==
    \/ SeekToFirst
    \/ \E key \in SeekKeys : SeekToKey(key)
    \/ SstNext
    \/ \E key \in SeekKeys : FindBlockIdx(key)

SpecSst == SstInit /\ [][SstNextStep]_vars

CountInit ==
    /\ CountStart /\ MergeIdle /\ BlockIdle /\ SstIdle
    /\ BloomIdle /\ MetaIdle /\ FileIdle /\ CacheIdle /\ ShareIdle

CountNext == CountAdd \/ CountRoundTrip

SpecCount == CountInit /\ [][CountNext]_vars

IndexInit == IndexStart /\ MergeIdle /\ BlockIdle /\ RestIdle

IndexNext == \E key \in IndexSeekKeys : FindBlockIdx(key)

SpecIndex == IndexInit /\ [][IndexNext]_vars

BlockInit == (BlockStart \/ RawStart) /\ MergeIdle /\ SstIdle /\ RestIdle

BlockNext ==
    \/ \E key \in BlockKeys, value \in BlockValues : Add(key, value)
    \/ Build
    \/ Encode
    \/ Decode
    \/ DecodeInput

SpecBlock == BlockInit /\ [][BlockNext]_vars

MergeInit == MergeStart /\ BlockIdle /\ SstIdle /\ RestIdle

MergeNext ==
    \/ Create
    \/ NextMerge
    \/ \E n \in 0..(MaxSources - 1) : NextFailsInHeap(n)
    \/ NextFailsInCurrent

SpecMerge == MergeInit /\ [][MergeNext]_vars

BloomInit ==
    /\ BloomStart /\ MergeIdle /\ BlockIdle /\ SstIdle
    /\ MetaIdle /\ FileIdle /\ CacheIdle /\ ShareIdle /\ CountIdle

BloomNext ==
    \/ BloomBuild
    \/ \E h \in BloomHashes : MayContain(h)
    \/ \E k \in DecodedKs : BloomRecode(k)

SpecBloom == BloomInit /\ [][BloomNext]_vars

MetaInit ==
    /\ MetaStart /\ MergeIdle /\ BlockIdle /\ SstIdle
    /\ BloomIdle /\ FileIdle /\ CacheIdle /\ ShareIdle /\ CountIdle

MetaNext ==
    \/ MetaEncode
    \/ \E i \in 1..MaxMetaBits : MetaFlip(i)
    \/ MetaDecode

SpecMeta == MetaInit /\ [][MetaNext]_vars

FileInit ==
    /\ FileStart /\ MergeIdle /\ BlockIdle /\ SstIdle
    /\ BloomIdle /\ MetaIdle /\ CacheIdle /\ ShareIdle /\ CountIdle

FileNext ==
    \/ Open
    \/ \E block_idx \in 0..(MaxFileKeys - 1) : ReadBlock(block_idx)

SpecFile == FileInit /\ [][FileNext]_vars

CacheInit ==
    CacheStart /\ MergeIdle /\ BlockIdle /\ SstIdle /\ BloomIdle /\ MetaIdle /\ ShareIdle /\ CountIdle

CacheNext ==
    \/ \E t \in Threads, block_idx \in 0..1 : CacheHit(t, block_idx)
    \/ \E t \in Threads, block_idx \in 0..1 : CacheMiss(t, block_idx)
    \/ \E t \in Threads, io_ok \in BOOLEAN : LoaderReturns(t, io_ok)
    \/ \E t \in Threads, block_idx \in 0..1, io_ok \in BOOLEAN :
          ReadBlockUncached(t, block_idx, io_ok)
    \/ \E t \in Threads : CallerReturns(t)
    \/ \E block_idx \in 0..1 : Evict(block_idx)

SpecCache == CacheInit /\ [][CacheNext]_vars

ShareInit ==
    /\ ShareStart /\ MergeIdle /\ BlockIdle
    /\ BloomIdle /\ MetaIdle /\ FileIdle /\ CacheIdle /\ CountIdle

ShareNextStep ==
    \/ \E i \in Iters : ShareSeekToFirst(i)
    \/ \E i \in Iters, key \in ShareSeekKeys : ShareSeekToKey(i, key)
    \/ \E i \in Iters : ShareNext(i)
    \/ \E i \in Iters : ShareCacheHit(i)
    \/ \E i \in Iters : ShareCacheMiss(i)
    \/ \E i \in Iters : ShareLoaderReturns(i)
    \/ \E i \in Iters : ShareResume(i)
    \/ \E blk_idx \in 0..(MaxShareKeys - 1) : ShareEvict(blk_idx)

SpecShare == ShareInit /\ [][ShareNextStep]_vars

(***************************************************************************)
(* Properties of the merge iterator                                        *)
(***************************************************************************)
SourceKeys(s) == {sources[s][i].key : i \in 1..Len(sources[s])}
AllSourceKeys == UNION {SourceKeys(s) : s \in 1..Len(sources)}
EmittedKeys == {emitted[i].key : i \in 1..Len(emitted)}
SharedKeys == {k \in AllSourceKeys :
                 Cardinality({s \in 1..Len(sources) : k \in SourceKeys(s)}) > 1}
\* the smallest list position (1-based) of a source holding key k
LowestSource(k) ==
    CHOOSE s \in 1..Len(sources) :
        /\ k \in SourceKeys(s)
        /\ \A t \in 1..Len(sources) : k \in SourceKeys(t) => s <= t
ValueIn(s, k) ==
    (CHOOSE i \in 1..Len(sources[s]) : sources[s][i].key = k)

\* C1: the keys observed from a MergeIterator (after create and after every
\* next() that leaves it valid) are strictly increasing: the stream is
\* non-decreasing and no key is emitted twice.
C1_MergeStrictlyIncreasing ==
    \A i, j \in 1..Len(emitted) :
        i < j => KeyLt(emitted[i].key, emitted[j].key)

\* a key shared by two sources has been passed and a later key emitted
C1_Witness ==
    /\ Len(emitted) >= 3
    /\ \E i \in 1..Len(emitted) - 1 : emitted[i].key \in SharedKeys

\* C2: a key held by several sources is emitted with the value of the source
\* of smallest list position, and the other sources' entries at that key are
\* skipped (the key shows up once).
C2_MergeLowestIndexWins ==
    \A i \in 1..Len(emitted) :
        LET k == emitted[i].key
            s == LowestSource(k)
        IN  /\ emitted[i].value = sources[s][ValueIn(s, k)].value
            /\ emitted[i].idx = s - 1
            /\ \A j \in 1..Len(emitted) : emitted[j].key = k => j = i

\* a key held by three sources was emitted and the stream went on
C2_Witness ==
    /\ Len(sources) = 3
    /\ \E i \in 1..Len(emitted) - 1 :
          \A s \in 1..3 : emitted[i].key \in SourceKeys(s)

\* C3: draining a MergeIterator ends after at most one next() per distinct
\* key, and the keys emitted are exactly the union of the sources' keys.
C3_MergeComplete ==
    mpc = "ready" =>
        /\ steps <= Cardinality(AllSourceKeys)
        /\ EmittedKeys \subseteq AllSourceKeys
        /\ ~MergeIsValid(current, pos) => EmittedKeys = AllSourceKeys

\* drained: three sources with different key sets, all four keys emitted
C3_Witness ==
    /\ mpc = "ready"
    /\ ~MergeIsValid(current, pos)
    /\ Len(sources) = 3
    /\ \A s, t \in 1..3 : s # t => SourceKeys(s) # SourceKeys(t)
    /\ Len(emitted) = Cardinality(MergeKeys)

\* C4: right after create: an empty list gives an empty heap, no current and
\* is_valid() false; a non-empty list of invalid iterators gives an empty heap
\* and is_valid() false; a list with a valid iterator gives is_valid() true.
C4_CreateValidity ==
    (mpc = "ready" /\ steps = 0) =>
        /\ Len(sources) = 0 =>
              iters = {} /\ current = None /\ ~MergeIsValid(current, pos)
        /\ (Len(sources) > 0 /\ AllInvalid(pos)) =>
              iters = {} /\ ~MergeIsValid(current, pos)
        /\ ~AllInvalid(pos) => MergeIsValid(current, pos)

\* create ran on a non-empty list whose iterators are all invalid
C4_Witness ==
    /\ mpc = "ready"
    /\ steps = 0
    /\ Len(sources) = 2
    /\ AllInvalid(pos)
    /\ current # None

(***************************************************************************)
(* Properties of the SsTable index and of the SsTableIterator              *)
(***************************************************************************)
RECURSIVE Concat(_, _)
Concat(blocks, j) ==
    IF j > Len(blocks) THEN <<>> ELSE blocks[j] \o Concat(blocks, j + 1)

AllEntries(t) == Concat(t.blocks, 1)

\* positions in AllEntries(t) of the entries whose key is >= K
AtOrAfter(t, K) ==
    {i \in 1..Len(AllEntries(t)) : KeyLe(K, AllEntries(t)[i].key)}

\* C5: seek_to_key(K) / create_and_seek_to_key(K) leaves the iterator on the
\* entry with the smallest key >= K of the whole SST, in the block blk_idx
\* names, and invalid exactly when the SST has no key >= K.
C5_SeekToKey ==
    (target.kind = "key" /\ nexts = 0) =>
        LET ge == AtOrAfter(table, target.key)
        IN  /\ SstIsValid(iter) <=> ge # {}
            /\ SstIsValid(iter) =>
                  LET m == CHOOSE i \in ge : \A j \in ge : i <= j
                  IN  /\ SstKey(iter) = AllEntries(table)[m].key
                      /\ SstValue(iter) = AllEntries(table)[m].value
                      /\ iter.blk_idx < num_of_blocks(table)
                      /\ iter.blk_iter.block = table.blocks[iter.blk_idx + 1]

\* the target lies after the last key of the block find_block_idx chose and
\* the iterator stands on the first entry of the following block
C5_Witness ==
    /\ target.kind = "key"
    /\ nexts = 0
    /\ SstIsValid(iter)
    /\ iter.blk_idx = find_block_idx(table, target.key) + 1
    /\ iter.blk_iter.idx = 0
    /\ KeyLt(target.key, SstKey(iter))

\* C6: from seek_to_first, next() while valid walks every entry of every
\* block once, in block order and entry order (keys strictly increasing),
\* and the iterator turns invalid after as many next() calls as there are
\* entries.
C6_ScanFromFirst ==
    target.kind = "first" =>
        LET all == AllEntries(table)
        IN  /\ Len(seen) <= Len(all)
            /\ seen = SubSeq(all, 1, Len(seen))
            /\ \A i, j \in 1..Len(seen) : i < j => KeyLt(seen[i].key, seen[j].key)
            /\ SstIsValid(iter) <=> nexts < Len(all)
            /\ SstIsValid(iter) => Len(seen) = nexts + 1
            /\ ~SstIsValid(iter) => seen = all

\* a table of three blocks was scanned to its end
C6_Witness ==
    /\ target.kind = "first"
    /\ num_of_blocks(table) = 3
    /\ ~SstIsValid(iter)
    /\ nexts = Len(AllEntries(table))
    /\ nexts > 3

\* 0-based indices of the blocks whose first key is <= K
BlocksAtOrBefore(t, K) ==
    {i \in 0..(num_of_blocks(t) - 1) : KeyLe(t.block_meta[i + 1].first_key, K)}

\* the first keys of block_meta do not decrease from block to block
MetaSorted(t) ==
    \A i \in 1..Len(t.block_meta), j \in 1..Len(t.block_meta) :
        i < j => KeyLe(t.block_meta[i].first_key, t.block_meta[j].first_key)

\* C7 as stated, on any SST: find_block_idx(key) is the largest i with
\* block_meta[i].first_key <= key, and 0 when key is smaller than the first
\* key of every block.
C7_AsStated ==
    found # None =>
        LET le == BlocksAtOrBefore(table, found.key)
        IN  found.idx = IF le = {} THEN 0
                        ELSE CHOOSE i \in le : \A j \in le : j <= i

\* C7 amended: on an SST whose block_meta is sorted by first_key,
\* find_block_idx(key) is the largest i with block_meta[i].first_key <= key,
\* and 0 when key is smaller than the first key of every block.
C7_FindBlockIdx ==
    (found # None /\ MetaSorted(table)) =>
        LET le == BlocksAtOrBefore(table, found.key)
        IN  found.idx = IF le = {} THEN 0
                        ELSE CHOOSE i \in le : \A j \in le : j <= i

\* on a sorted table of three blocks, the first key repeated, a key after
\* the second first key was looked up and the second block was found
C7_Witness ==
    /\ found # None
    /\ MetaSorted(table)
    /\ num_of_blocks(table) = 3
    /\ table.block_meta[1].first_key = table.block_meta[2].first_key
    /\ found.idx = 1
    /\ KeyLt(table.block_meta[2].first_key, found.key)

\* a key before all blocks of a sorted table was looked up
BeforeAllBlocks ==
    ~(/\ found # None
      /\ MetaSorted(table)
      /\ num_of_blocks(table) = 3
      /\ KeyLt(found.key, table.block_meta[1].first_key)
      /\ found.idx = 0)

\* on a table that is not sorted the search ends on a block whose first key
\* is above the key looked up
UnsortedMisses ==
    ~(/\ found # None
      /\ ~MetaSorted(table)
      /\ KeyLt(found.key, table.block_meta[found.idx + 1].first_key)
      /\ BlocksAtOrBefore(table, found.key) # {})

\* C8 as stated: for any key K and any SST, i = find_block_idx(K) has
\* meta[i].first_key <= K, and i is the last index or meta[i+1].first_key > K
\* (read here for the SSTs that have a block 0 to speak of).
C8_AsStated ==
    (found # None /\ num_of_blocks(table) > 0) =>
        /\ found.idx < num_of_blocks(table)
        /\ KeyLe(table.block_meta[found.idx + 1].first_key, found.key)
        /\ \/ found.idx = num_of_blocks(table) - 1
           \/ KeyLt(found.key, table.block_meta[found.idx + 2].first_key)

\* C8 amended: on an SST whose block_meta is sorted by first_key, the
\* bracketing holds for the keys K >= meta[0].first_key when the SST has at
\* least one block; for any other key the result is 0.
C8_FindBlockIdxBrackets ==
    (found # None /\ MetaSorted(table)) =>
        IF num_of_blocks(table) > 0
           /\ KeyLe(table.block_meta[1].first_key, found.key)
        THEN /\ found.idx < num_of_blocks(table)
             /\ KeyLe(table.block_meta[found.idx + 1].first_key, found.key)
             /\ \/ found.idx = num_of_blocks(table) - 1
                \/ KeyLt(found.key, table.block_meta[found.idx + 2].first_key)
        ELSE found.idx = 0

\* the key looked up is the first key of a block that has a successor
C8_Witness ==
    /\ found # None
    /\ MetaSorted(table)
    /\ found.idx >= 1
    /\ found.idx + 1 < num_of_blocks(table)
    /\ found.key = table.block_meta[found.idx + 1].first_key

(***************************************************************************)
(* Properties of the block codec                                           *)
(***************************************************************************)
\* the builder written out for n + 1 calls is what add makes of the one
\* written out for n calls, and the one for no call is the new builder
BuilderAfterIsAdd ==
    LET key == cbuilder.key
        value == cbuilder.value
        bs == cbuilder.block_size
    IN  /\ BuilderAfter(0, key, value, bs) = BlockBuilderNew(bs)
        /\ Len(key) > 0 =>
              AddEntry(BuilderOf(cbuilder), key, value)
                  = BuilderAfter(cbuilder.n + 1, key, value, bs)

\* C9: for any block B built by BlockBuilder (any sequence of accepted add
\* calls, then build), Block::decode(B.encode()) has the data and the
\* offsets of B.
C9_BlockRoundTrip ==
    /\ bpc = "decoded" =>
          /\ decoded.ok
          /\ decoded.data = block.data
          /\ decoded.offsets = block.offsets
    /\ crt # None =>
          /\ crt.ok
          /\ crt.same_data
          /\ crt.same_offsets

\* the round trip holds of every block of fewer than 2^16 entries
RoundTripUnderU16 ==
    (crt # None /\ crt.entries < U16Mod) =>
        crt.ok /\ crt.same_data /\ crt.same_offsets

\* a block of 2^16 entries is encoded with the count 0 and decoded without
\* an offset
CountWraps ==
    (crt # None /\ crt.entries = U16Mod) =>
        crt.ok /\ ~crt.same_data /\ ~crt.same_offsets /\ crt.decoded_entries = 0

\* three entries were built, encoded and decoded
C9_Witness ==
    /\ bpc = "decoded"
    /\ Len(block.offsets) = 3
    /\ Len(added) = 3
    /\ added[1].key # added[2].key
    /\ Len(encoded) = Len(block.data) + SIZEOF_U16 * 4

\* length of the longest common prefix of two keys
CommonPrefixLen(a, b) ==
    LET P == {n \in 0..MinNat(Len(a), Len(b)) : SubSeq(a, 1, n) = SubSeq(b, 1, n)}
    IN  CHOOSE n \in P : \A m \in P : m <= n

\* the first key the builder holds when entry i is added: none yet for the
\* first entry, whose overlap is therefore 0
FirstKeyAt(i) == IF i = 1 THEN <<>> ELSE added[1].key

\* the overlap_len field of entry i as stored in data
StoredOverlap(blk, i) ==
    IF blk.offsets[i] + SIZEOF_U16 > Len(blk.data) THEN "out of range"
    ELSE get_u16(blk.data, blk.offsets[i] + 1)

\* the key of entry i (1-based) as read back from data at offsets[i]:
\* first_key[0..overlap_len] ++ rest_bytes
ReconstructKey(blk, first_key, i) ==
    LET off      == blk.offsets[i]
        n        == Len(blk.data)
    IN  IF off + 2 * SIZEOF_U16 > n THEN "out of range"
        ELSE LET overlap  == get_u16(blk.data, off + 1)
                 rest_len == get_u16(blk.data, off + SIZEOF_U16 + 1)
                 from     == off + 2 * SIZEOF_U16
             IN  IF from + rest_len > n \/ overlap > Len(first_key)
                 THEN "out of range"
                 ELSE SubSeq(first_key, 1, overlap)
                        \o SubSeq(blk.data, from + 1, from + rest_len)

\* C10: in a built block, the key read back from entry i, first_key[0..overlap]
\* followed by the rest bytes, is the i-th key passed to add, and overlap is
\* the length of the longest common prefix of that key and the first key.
C10_KeyRecoverable ==
    bpc = "built" =>
        \A i \in 1..Len(block.offsets) :
            /\ ReconstructKey(block, added[1].key, i) = added[i].key
            /\ StoredOverlap(block, i) = CommonPrefixLen(added[i].key, FirstKeyAt(i))

\* recoverability as far as it goes: keys and data shorter than 2^16 bytes
KeyRecoverableUnderU16 ==
    (bpc = "built" /\ Len(block.data) < U16Mod) =>
        \A i \in 1..Len(block.offsets) :
            /\ ReconstructKey(block, added[1].key, i) = added[i].key
            /\ StoredOverlap(block, i) = CommonPrefixLen(added[i].key, FirstKeyAt(i))

\* C11: BlockBuilder::add returns false, leaving offsets, data and first_key
\* as they were, exactly when the builder is non-empty and estimated_size() +
\* key.len() + value.len() + 6 exceeds block_size; in every other case (the
\* first add on an empty builder included, whatever the entry size) it returns
\* true after appending one offset and one entry: the two overlap and rest
\* length fields, the rest of the key, the value length field and the value.
C11_AddFrame ==
    [][\A key \in BlockKeys, value \in BlockValues :
          Add(key, value) =>
            LET full == /\ Len(builder.offsets) > 0
                        /\ estimated_size(builder) + Len(key) + Len(value) + 6
                              > builder.block_size
                rest == Len(key) - CommonPrefixLen(builder.first_key, key)
            IN  IF full
                THEN /\ ret' = "false"
                     /\ builder'.offsets = builder.offsets
                     /\ builder'.data = builder.data
                     /\ builder'.first_key = builder.first_key
                ELSE /\ ret' = "true"
                     /\ Len(builder'.offsets) = Len(builder.offsets) + 1
                     /\ SubSeq(builder'.offsets, 1, Len(builder.offsets)) = builder.offsets
                     /\ Len(builder'.data) = Len(builder.data) + 6 + rest + Len(value)
                     /\ SubSeq(builder'.data, 1, Len(builder.data)) = builder.data
                     /\ SubSeq(builder'.data, Len(builder'.data) - Len(value) + 1,
                               Len(builder'.data)) = value
    ]_vars

\* an entry larger than block_size went into the empty builder, and the add
\* after it was refused
C11_Witness ==
    /\ bpc = "building"
    /\ ret = "false"
    /\ Len(added) = 1
    /\ estimated_size(builder) > builder.block_size
    /\ Len(added[1].value) = 2

\* C18: Block::decode returns no Block for an input shorter than 2 bytes, nor
\* for an input whose trailing 16-bit count c has 2 + 2*c > input length.
C18_DecodeFails ==
    bpc = "rawdone" =>
        LET n == Len(encoded)
        IN  /\ n < 2 => ~decoded.ok
            /\ (n >= 2 /\ 2 + 2 * (encoded[n - 1] * 256 + encoded[n]) > n)
                   => ~decoded.ok

\* a three-byte input that announces one offset was refused
C18_Witness ==
    /\ bpc = "rawdone"
    /\ Len(encoded) = 3
    /\ encoded[2] = 0
    /\ encoded[3] = 1
    /\ ~decoded.ok

\* inputs that are long enough for their count do decode
DecodeAcceptsTheRest ==
    bpc = "rawdone" =>
        LET n == Len(encoded)
        IN  (n >= 2 /\ 2 + 2 * (encoded[n - 1] * 256 + encoded[n]) <= n)
               => decoded.ok

(***************************************************************************)
(* Properties of num_active_iterators                                      *)
(***************************************************************************)
\* the sources the merge iterator still holds: those that are still valid
\* and the one in current
HeldSources ==
    ({s \in 1..Len(sources) : SrcIsValid(pos, s)}
        \cup (IF current = None THEN {} ELSE {current.it}))
    \ (IF failed # None /\ failed.at = "heap" THEN {failed.it} ELSE {})

RECURSIVE SumOver(_)
SumOver(S) ==
    IF S = {} THEN 0
    ELSE LET s == CHOOSE x \in S : TRUE IN SrcNumActive(s) + SumOver(S \ {s})

\* C19: num_active_iterators() is the sum of the counts of the iterator in
\* current (if any) and of every iterator still in the heap; a source that was
\* popped from the heap because it became invalid is no longer counted.
C19_NumActive ==
    mpc \in {"ready", "failed"} =>
        /\ num_active_iterators(iters, current) = SumOver(HeldSources)
        /\ \A s \in 1..Len(sources) :
              (~SrcIsValid(pos, s) /\ (current = None \/ current.it # s))
                 => \A w \in iters : w.it # s
        /\ (failed # None /\ failed.at = "heap")
              => \A w \in iters : w.it # failed.it

\* one source was exhausted and popped by an earlier next(); then the next()
\* of a heap member failed while it was still valid: both are gone from the
\* heap and from the count, which is current's alone
C19_Witness ==
    /\ mpc = "failed"
    /\ failed.at = "heap"
    /\ steps > 0
    /\ Len(sources) = 3
    /\ SrcIsValid(pos, failed.it)
    /\ \E s \in 1..3 : /\ Len(sources[s]) > 0
                        /\ ~SrcIsValid(pos, s)
                        /\ s # current.it
    /\ iters = {}
    /\ num_active_iterators(iters, current) = SrcNumActive(current.it)

(***************************************************************************)
(* Properties of the Bloom filter                                          *)
(***************************************************************************)
\* C12: for every list of 32-bit hashes and every bits_per_key, each hash
\* that was passed to build_from_key_hashes has may_contain(h) = true on the
\* filter built.
C12_NoFalseNegative ==
    (blpc = "built" /\ probe # None) =>
        ((\E j \in 1..Len(bkeys) : bkeys[j] = probe.h) => probe.ret = "true")

\* no false negative as long as the filter has fewer than 2^32 bits
NoFalseNegativeBelow32Bits ==
    (blpc = "built" /\ probe # None /\ bit_len(bloom.filter)[1] < U16Mod) =>
        ((\E j \in 1..Len(bkeys) : bkeys[j] = probe.h) => probe.ret = "true")

\* C13, as stated: k = clamp(round(bits_per_key * 0.69), 1, 30): 100 * k is
\* within 50 of 69 * bits_per_key, unless clamped.
C13_AsStated ==
    blpc = "built" =>
        LET x == IF bpk[1] > 0 THEN 69 * U16Mod ELSE 69 * bpk[2]
        IN  IF x + 50 < 200 THEN bloom.k = 1
            ELSE IF x + 50 >= 3000 THEN bloom.k = 30
            ELSE 100 * bloom.k <= x + 50 /\ x + 50 < 100 * (bloom.k + 1)

\* C13 amended: k = clamp(floor(bits_per_key * 0.69), 1, 30): k is the
\* largest integer with 100 * k <= 69 * bits_per_key, unless clamped.
C13_HashCount ==
    blpc = "built" =>
        LET x == IF bpk[1] > 0 THEN 69 * U16Mod ELSE 69 * bpk[2]
        IN  IF x < 200 THEN bloom.k = 1
            ELSE IF x >= 3000 THEN bloom.k = 30
            ELSE 100 * bloom.k <= x /\ x < 100 * (bloom.k + 1)

\* bits_per_key = 10, where 6.9 is cut to k = 6
C13_Witness ==
    /\ blpc = "built"
    /\ bpk = Wide(10)
    /\ bloom.k = 6

\* C20: on a filter decoded with k > 30, may_contain(h) is true for every
\* hash h, whatever the filter bits.
C20_EscapeForLargeK ==
    (blpc = "decoded" /\ bloom.k > 30 /\ probe # None) => probe.ret = "true"

\* a filter with no bit set, decoded with k = 31, answered true
C20_Witness ==
    /\ blpc = "decoded"
    /\ bloom.k = 31
    /\ bloom.filter.ones = {}
    /\ bloom.filter.len = Wide(8)
    /\ probe # None
    /\ probe.ret = "true"

\* encode writes the filter, k and four checksum bytes; a query never
\* reads a bit outside the filter
EncodeLenIsWritten ==
    /\ (blpc = "built" /\ bloom.filter.len[1] = 0) =>
          Wide(Len(BloomEncode(bloom))) = BloomEncodeLen(bloom)
    /\ (blpc \in {"built", "decoded"} /\ probe # None) =>
          (probe.ret = "panic" <=> bit_len(bloom.filter) = <<0, 0>>)

(***************************************************************************)
(* Properties of the block metadata codec                                  *)
(***************************************************************************)
\* C14: decode_block_meta(encode_block_meta(M)) returns exactly M, and an
\* encoding with any single bit flipped (in the count, in an entry or in the
\* checksum) makes decode_block_meta fail with the checksum-mismatch error.
C14_MetaRoundTripAndCrc ==
    mtpc = "decoded" =>
        IF metaFlip = 0
        THEN metaOut = [kind |-> "ok", meta |-> metaIn]
        ELSE metaOut = [kind |-> "err", msg |-> "meta checksum mismatched"]

\* the round trip alone
MetaRoundTrip ==
    (mtpc = "decoded" /\ metaFlip = 0) => metaOut = [kind |-> "ok", meta |-> metaIn]

\* a flipped encoding is never decoded to a list: decode fails with the
\* checksum error or panics
MetaFlipNeverAccepted ==
    (mtpc = "decoded" /\ metaFlip # 0) => metaOut.kind \in {"err", "panic"}

\* a flip in the count that raises it makes decode panic
MetaCountRaisedPanics ==
    (mtpc = "decoded" /\ metaFlip \in 1..32
        /\ ~WideLe(get_u32(metaBuf, 1), Wide(Len(metaIn))))
       => metaOut.kind = "panic"

\* a flip in the checksum, in an offset or in a key byte is reported as a
\* checksum mismatch: here, for the entry-free encoding and for the bytes of
\* the first entry's offset
MetaFlipInOffsetOrCrc ==
    (mtpc = "decoded" /\ metaFlip # 0
        /\ \/ metaFlip > 8 * (Len(metaBuf) - 4)
           \/ (Len(metaIn) > 0 /\ metaFlip \in 33..64))
       => metaOut.kind = "err"


(***************************************************************************)
(* SsTable::open and SsTable::read_block on a file with at most one bit    *)
(* flipped                                                                 *)
(***************************************************************************)
\* the byte (0-based) the flipped bit lies in, -1 if no bit is flipped
FlipByte == IF fflip = 0 THEN 0 - 1 ELSE (fflip - 1) \div 8

FlipInMeta == FlipByte \in MetaStartOf(fsrc)..(BloomStartOf(fsrc) - 5)

FlipInBloom == FlipByte >= BloomStartOf(fsrc)

\* the meta section and the bloom section as they lie in the file
RawMetaOf(f, blocks) == SubSeq(f, MetaStartOf(blocks) + 1, BloomStartOf(blocks) - 4)
RawBloomOf(f, blocks) == SubSeq(f, BloomStartOf(blocks) + 1, Len(f) - 4)

\* the stored CRC32 of the meta section is that of the bytes between the
\* count and the CRC32
MetaCrcVerifies ==
    LET raw == RawMetaOf(file, fsrc)
    IN  get_u32(raw, Len(raw) - 3) = crc32(SubSeq(raw, 5, Len(raw) - 4))

\* the stored CRC32 of the bloom section is that of the bytes before it
BloomCrcVerifies ==
    LET raw == RawBloomOf(file, fsrc)
    IN  get_u32(raw, Len(raw) - 3) = crc32(SubSeq(raw, 1, Len(raw) - 4))

\* the SsTable that open has to return for the file written from fsrc
ExpectedSst ==
    [id                |-> 0,
     first_key         |-> fsrc[1][1].key,
     last_key          |-> fsrc[Len(fsrc)][Len(fsrc[Len(fsrc)])].key,
     block_meta        |-> TableOf(fsrc).block_meta,
     block_meta_offset |-> MetaStartOf(fsrc),
     bloom             |-> FileBloom(fsrc),
     max_ts            |-> 0]

\* C15: open of a file whose bloom and meta sections are as written returns
\* an SsTable with the decoded block_meta, block_meta_offset, the first key
\* of the first block, the last key of the last block, the Bloom filter and
\* max_ts = 0; if the CRC32 of the bloom section or of the meta section
\* does not verify, open returns an error and no SsTable.
C15_Open ==
    fpc \in {"opened", "failed"} =>
        /\ (~FlipInMeta /\ ~FlipInBloom) => opened = [kind |-> "ok", sst |-> ExpectedSst]
        /\ (~MetaCrcVerifies \/ ~BloomCrcVerifies) => opened.kind = "err"

\* open of a file with no bit flipped in the two sections returns the SsTable
OpenReturnsTheFields ==
    (fpc \in {"opened", "failed"} /\ ~FlipInMeta /\ ~FlipInBloom) =>
        opened = [kind |-> "ok", sst |-> ExpectedSst]

\* a bit flipped in the bloom section: the CRC32 does not verify, open
\* returns the error of Bloom::decode
OpenBloomFlipFails ==
    (fpc \in {"opened", "failed"} /\ FlipInBloom) =>
        /\ ~BloomCrcVerifies
        /\ opened = [kind |-> "err", msg |-> "checksum mismatched for bloom filters"]

\* a bit flipped in the meta section: open returns no SsTable, it returns
\* the checksum error or panics
OpenMetaFlipNoSst ==
    (fpc \in {"opened", "failed"} /\ FlipInMeta) =>
        \/ opened = [kind |-> "err", msg |-> "meta checksum mismatched"]
        \/ opened = [kind |-> "panic"]

\* a bit flipped in a key length or an offset of the meta section, under the
\* CRC32: open panics
OpenPanicsUnderCrc ==
    ~(fpc = "failed" /\ FlipInMeta /\ ~MetaCrcVerifies /\ opened.kind = "panic")

\* on the files written here, with one bit flipped in a section or none, no
\* subtraction of open or read_block goes below zero: a build with overflow
\* checks and one without return the same
BuildsAgree ==
    /\ fpc \in {"opened", "failed"} => open(TRUE, 0, file) = open(FALSE, 0, file)
    /\ rblock # None =>
          read_block(TRUE, opened.sst, file, rblock.idx)
              = read_block(FALSE, opened.sst, file, rblock.idx)

\* reads at and around i64::MAX: a range that ends above i64::MAX is
\* refused, one that ends at or below it finds no byte of the file
ReadNearI64Max ==
    fpc # "idle" =>
        /\ \A n \in 1..2 : FileRead(file, <<1, 0>>, n).msg = "Invalid argument (os error 22)"
        /\ \A n \in 4..5 : FileRead(file, <<1, 3>>, n).msg = "Invalid argument (os error 22)"
        /\ \A n \in 1..3 : FileRead(file, <<1, 3>>, n).msg = "failed to fill whole buffer"
        /\ FileRead(file, <<1, 3>>, 0) = [ok |-> TRUE, data |-> <<>>]
        /\ FileRead(file, AsOffset(0 - 1), 1).msg = "Invalid argument (os error 22)"

\* C16: read_block(idx) reads [meta[idx].offset, end), end the offset of the
\* next block or block_meta_offset for the last; it compares the CRC32 of
\* the bytes before the last four with the u32 in the last four; on a
\* mismatch it returns the checksum error, else the decoded block.
C16_ReadBlockChecksum ==
    rblock # None =>
        LET j      == rblock.idx + 1
            lo     == OffsetOf(fsrc, j)
            hi     == IF j = Len(fsrc) THEN MetaStartOf(fsrc) ELSE OffsetOf(fsrc, j + 1)
            stored == get_u32(file, hi - 3)
            actual == crc32(SubSeq(file, lo + 1, hi - 4))
        IN  /\ (stored # actual) <=> (FlipByte \in lo..(hi - 1))
            /\ IF stored # actual
               THEN rblock.res = [kind |-> "err", msg |-> "block checksum mismatched"]
               ELSE rblock.res = [kind |-> "ok", block |-> BlockOfEntries(fsrc[j])]

\* a bit of the data of the first of two blocks is flipped and read_block(0)
\* returned the checksum error
C16_Witness ==
    /\ rblock # None
    /\ Len(fsrc) = 2
    /\ rblock.idx = 0
    /\ FlipByte \in 0..(OffsetOf(fsrc, 2) - 5)
    /\ rblock.res = [kind |-> "err", msg |-> "block checksum mismatched"]

\* the other block of such a file is read and decoded
ReadOfTheOtherBlock ==
    ~(/\ rblock # None
      /\ Len(fsrc) = 2
      /\ rblock.idx = 1
      /\ FlipByte \in 0..(OffsetOf(fsrc, 2) - 1)
      /\ rblock.res.kind = "ok")


(***************************************************************************)
(* read_block_cached under contention                                      *)
(***************************************************************************)
\* what a read_block of the block can give: its result, or the error of a
\* failed read of the file
ReadResults(block_idx) == {ReadBlockIo(block_idx, io_ok) : io_ok \in BOOLEAN}

\* per key at most one caller runs read_block; the cache holds only blocks
\* that read_block returned; without a cache no caller waits
CacheState ==
    fpc = "shared" =>
        /\ \A k \in DOMAIN cache :
              /\ Cardinality({t \in Threads : tpc[t] = "loading" /\ tkey[t] = k}) <= 1
              /\ cache[k] # None =>
                    read_block(overflow_checks, opened.sst, file, k) =
                        [kind |-> "ok", block |-> cache[k]]
        /\ ~attached => \A t \in Threads : tpc[t] \in {"idle", "done"}

\* a load that ends gives its result to its caller and to every waiter of
\* its key, and leaves the cache without the key when it failed; a waiter
\* is released only by the end of the load of its key; a call without a
\* cache returns what read_block returns
CacheStep ==
    /\ \A l \in Threads :
          (tpc[l] = "loading" /\ tpc'[l] # "loading") =>
              /\ tpc'[l] = "done"
              /\ \E r \in ReadResults(tkey[l]) :
                    /\ tres'[l] = MapErr(r)
                    /\ r.kind = "err" => cache'[tkey[l]] = None
                    /\ r.kind = "ok" => cache'[tkey[l]] = r.block
              /\ \A w \in Threads :
                    (tpc[w] = "waiting" /\ tkey[w] = tkey[l]) =>
                        tpc'[w] = "done" /\ tres'[w] = tres'[l]
    /\ \A w \in Threads :
          (tpc[w] = "waiting" /\ tpc'[w] # "waiting") =>
              \E l \in Threads :
                  tpc[l] = "loading" /\ tkey[l] = tkey[w] /\ tpc'[l] = "done"
    /\ \A t \in Threads :
          (~attached /\ tpc[t] = "idle" /\ tpc'[t] # "idle") =>
              /\ tpc'[t] = "done"
              /\ tres'[t] \in ReadResults(tkey'[t])

\* C17: with a block cache, read_block_cached calls for one (sst_id, idx)
\* that miss cause at most one read_block at a time, every waiter gets the
\* result of that load, a failed load is returned as an error and is not
\* cached; without a cache read_block_cached(idx) is read_block(idx).
C17_OneLoadPerKey == []CacheState /\ [][CacheStep]_vars

\* a second load of the first block failed on its checksum, a caller ran it
\* and another waited for it, both hold the error and the cache is empty
C17_Witness ==
    /\ fpc = "shared"
    /\ attached
    /\ nloads[0] >= 2
    /\ cache[0] = None
    /\ \E l, w \in Threads :
          /\ tpc[l] = "done" /\ tkey[l] = 0 /\ tvia[l] = "load"
          /\ tpc[w] = "done" /\ tkey[w] = 0 /\ tvia[w] = "wait"
          /\ tres[l] = [kind |-> "err", msg |-> "block checksum mismatched"]
          /\ tres[w] = tres[l]

\* a caller waited for a load that returned the block
WaiterGetsTheBlock ==
    ~(\E w \in Threads :
          tpc[w] = "done" /\ tvia[w] = "wait" /\ tres[w].kind = "ok"
              /\ cache[tkey[w]] = tres[w].block)


(***************************************************************************)
(* The heap of the MergeIterator, and next() calls that fail               *)
(***************************************************************************)
\* a is not after b under (key, source index)
CombinedLe(p, a, b) ==
    \/ KeyLt(SrcKey(p, a.it), SrcKey(p, b.it))
    \/ SrcKey(p, a.it) = SrcKey(p, b.it) /\ a.idx <= b.idx

\* C21: after create and next() calls that returned Ok, every iterator in
\* the heap is valid, and while the merge iterator is valid current is not
\* after any heap member under (key, source index), so that the key of
\* every heap member is >= current's.
C21_HeapInvariant ==
    mpc = "ready" =>
        /\ \A w \in iters : SrcIsValid(pos, w.it)
        /\ MergeIsValid(current, pos) =>
              \A w \in iters :
                  /\ CombinedLe(pos, current, w)
                  /\ KeyLe(MergeKey(current, pos), SrcKey(pos, w.it))

\* after two next() calls the heap holds a source of larger index on
\* current's key, and a source on a later key
C21_Witness ==
    /\ mpc = "ready"
    /\ steps >= 2
    /\ MergeIsValid(current, pos)
    /\ \E w \in iters : SrcKey(pos, w.it) = MergeKey(current, pos) /\ w.idx > current.idx
    /\ \E w \in iters : KeyLt(MergeKey(current, pos), SrcKey(pos, w.it))

\* an invalid merge iterator has an empty heap
InvalidHasEmptyHeap == (mpc = "ready" /\ ~MergeIsValid(current, pos)) => iters = {}

\* a next() call that returns an error: current is the wrapper it was, on
\* the entry it was on.  If the call that failed was made on a heap member,
\* the member sat on current's key and is out of the heap, the members
\* advanced before it are those that sat on current's key, nothing else
\* moved.  If it was made on current, the heap is what the loop left: no
\* member was taken out for current, current was not put in.
FailedStep ==
    (mpc = "ready" /\ mpc' = "failed") =>
        /\ current' = current
        /\ pos'[current.it] = pos[current.it]
        /\ MergeIsValid(current', pos')
        /\ MergeKey(current', pos') = MergeKey(current, pos)
        /\ MergeValue(current', pos') = MergeValue(current, pos)
        /\ steps' = steps /\ emitted' = emitted
        /\ \A s \in 1..Len(sources) :
              pos'[s] # pos[s] =>
                  /\ HeapWrapper(s - 1, s) \in iters
                  /\ SrcKey(pos, s) = MergeKey(current, pos)
                  /\ pos'[s] = pos[s] + 1
        /\ IF failed'.at = "heap"
           THEN /\ HeapWrapper(failed'.it - 1, failed'.it) \in iters
                /\ SrcKey(pos, failed'.it) = MergeKey(current, pos)
                /\ \A w \in iters' : w.it # failed'.it
                /\ pos'[failed'.it] = pos[failed'.it]
                /\ iters' \subseteq iters
           ELSE /\ failed'.it = current.it
                /\ iters' \subseteq iters
                /\ current \notin iters'
                /\ \A w \in iters' : KeyLt(MergeKey(current, pos), SrcKey(pos', w.it))
                /\ \A w \in iters \ iters' : ~SrcIsValid(pos', w.it)

\* C22: if the next() of a heap-top iterator on current's key returns an
\* error, the iterator is removed from the heap, the error is returned at
\* once and current is not advanced: key() and value() are unchanged.  If
\* the next() of current returns an error, the error is returned and
\* current is neither replaced from the heap nor swapped with its top.
C22_ErrorLeavesCurrent == [][FailedStep]_vars

\* the next() of the second heap member on current's key failed, after the
\* first was advanced: it is out of the heap, the first is still in it
C22_Witness ==
    /\ mpc = "failed"
    /\ failed.at = "heap"
    /\ MergeIsValid(current, pos)
    /\ \E w \in iters : pos[w.it] > 1 /\ w.it # failed.it
    /\ SrcKey(pos, failed.it) = MergeKey(current, pos)

\* the next() of current failed while the heap held other iterators
FailedInCurrentWithHeap ==
    ~(mpc = "failed" /\ failed.at = "current" /\ iters # {} /\ steps > 0)


(***************************************************************************)
(* The position of an SsTableIterator                                      *)
(***************************************************************************)
\* a valid iterator stands on an entry of the block blk_idx names
ValidIsInBlock ==
    (iter # None /\ SstIsValid(iter)) =>
        /\ iter.blk_idx < num_of_blocks(table)
        /\ iter.blk_iter.block = table.blocks[iter.blk_idx + 1]
        /\ iter.blk_iter.idx < Len(table.blocks[iter.blk_idx + 1])

\* a next() call on an invalid iterator leaves it invalid
InvalidStays ==
    (iter # None /\ ~SstIsValid(iter) /\ nexts' = nexts + 1) => ~SstIsValid(iter')

\* C23: in every state reached by the seek calls and next(), a valid
\* iterator has blk_idx < num_of_blocks and its block iterator stands on
\* an entry of block blk_idx; an iterator that became invalid at the end of
\* the last block stays invalid under further next() calls.
C23_IteratorPosition == []ValidIsInBlock /\ [][InvalidStays]_vars

\* a table of two blocks or more was scanned to its end and next() was
\* called again: blk_idx is past num_of_blocks, the iterator is invalid
C23_Witness ==
    /\ iter # None
    /\ target.kind = "first"
    /\ num_of_blocks(table) >= 2
    /\ nexts > Len(AllEntries(table))
    /\ iter.blk_idx > num_of_blocks(table)
    /\ ~SstIsValid(iter)

\* an invalid iterator is past the last block
InvalidIsPastTheEnd ==
    (iter # None /\ ~SstIsValid(iter)) => iter.blk_idx >= num_of_blocks(table)


(***************************************************************************)
(* The offsets and the size of a built block                               *)
(***************************************************************************)
\* bytes entry i takes in data: three 16-bit fields, the rest of the key
\* after the prefix shared with the first key, and the value
EntryLen(i) ==
    6 + Len(added[i].key) - CommonPrefixLen(added[i].key, FirstKeyAt(i))
      + Len(added[i].value)

\* the byte position in data at which entry i starts
RECURSIVE EntryStart(_)
EntryStart(i) == IF i = 1 THEN 0 ELSE EntryStart(i - 1) + EntryLen(i - 1)

\* C24: a block returned by build, after any add calls with any block_size
\* and any key and value lengths, has at least one offset, its first entry
\* has overlap_len 0, and its offsets are strictly increasing, offsets[i]
\* being the byte position in data at which entry i starts.
C24_Offsets ==
    bpc = "built" =>
        /\ Len(block.offsets) >= 1
        /\ StoredOverlap(block, 1) = 0
        /\ \A i \in 1..Len(block.offsets) : block.offsets[i] = EntryStart(i)
        /\ \A i \in 1..(Len(block.offsets) - 1) : block.offsets[i] < block.offsets[i + 1]

\* the same for the blocks whose data is shorter than 2^16 bytes
OffsetsUnderU16 ==
    (bpc = "built" /\ Len(block.data) < U16Mod) =>
        /\ Len(block.offsets) >= 1
        /\ StoredOverlap(block, 1) = 0
        /\ \A i \in 1..Len(block.offsets) : block.offsets[i] = EntryStart(i)
        /\ \A i \in 1..(Len(block.offsets) - 1) : block.offsets[i] < block.offsets[i + 1]

\* in every built block: one offset per entry added, the first 0, each the
\* start of its entry modulo 2^16
OffsetsModulo ==
    bpc = "built" =>
        /\ Len(block.offsets) = Len(added)
        /\ Len(block.offsets) >= 1
        /\ StoredOverlap(block, 1) = 0
        /\ \A i \in 1..Len(block.offsets) : block.offsets[i] = EntryStart(i) % U16Mod

\* C25: after any add calls with block_size S, estimated_size() is the
\* length of build().encode(), and with two entries or more that length is
\* at most S.
C25_SizeWithinBlockSize ==
    (bpc = "building" /\ ~is_empty(builder)) =>
        /\ estimated_size(builder) = Len(BlockEncode(BuildBlock(builder)))
        /\ Len(added) >= 2 => Len(BlockEncode(BuildBlock(builder))) <= builder.block_size

\* estimated_size() is the length of the encoded block
EstimateIsEncodedLen ==
    (bpc = "building" /\ ~is_empty(builder)) =>
        estimated_size(builder) = Len(BlockEncode(BuildBlock(builder)))

\* with two entries or more the encoded block is at most two bytes longer
\* than block_size: the size test of add counts three 16-bit fields per
\* entry, add writes four
SizeWithinTwoBytes ==
    (bpc = "building" /\ Len(added) >= 2) =>
        Len(BlockEncode(BuildBlock(builder))) <= builder.block_size + SIZEOF_U16


(***************************************************************************)
(* Iterators over a shared SsTable                                         *)
(***************************************************************************)
\* an iterator with no call in flight is where its calls, made one after
\* the other on the table alone, put it: the same blk_idx, the same block
\* iterator, and so the same is_valid(), key() and value()
ShareState ==
    \A i \in DOMAIN calls :
        calls[i].op = "none" =>
            /\ its[i] = alone[i]
            /\ its[i] # None =>
                  /\ SstIsValid(its[i]) = SstIsValid(alone[i])
                  /\ SstIsValid(its[i]) =>
                        /\ SstKey(its[i]) = SstKey(alone[i])
                        /\ SstValue(its[i]) = SstValue(alone[i])

\* a step leaves the SsTable as it is, and a step of the call on one
\* iterator leaves every other iterator as it is: blk_idx, the block
\* iterator, key() and value()
ShareStep ==
    /\ table' = table
    /\ \A i \in Iters :
          ShareStepOf(i) =>
              \A j \in Iters \ {i} :
                  /\ its'[j] = its[j]
                  /\ (its[j] # None /\ SstIsValid(its[j])) =>
                        /\ SstIsValid(its'[j])
                        /\ SstKey(its'[j]) = SstKey(its[j])
                        /\ SstValue(its'[j]) = SstValue(its[j])

\* C26: two SsTableIterators over one shared SsTable are independent: under
\* any interleaving of their next() and seek calls a call on one leaves the
\* other's blk_idx, block-iterator position, key() and value() unchanged,
\* the SsTable is never modified, and each iterator emits what it would
\* emit if run alone.
C26_Independent == []ShareState /\ [][ShareStep]_vars

\* a next() of iterator 1 that crosses into the following block was handed
\* the block by the loader that a seek of iterator 2 ran, while iterator 2
\* has returned and stands in that block on an entry that is not its first
C26_Witness ==
    /\ calls # <<>>
    /\ calls[1].op = "next" /\ calls[1].stage = "got" /\ calls[1].via = "wait"
    /\ calls[2].op = "none"
    /\ its[2] # None /\ SstIsValid(its[2])
    /\ its[2].blk_idx = calls[1].blk_idx
    /\ its[2].blk_iter.idx > 0
    /\ scache[its[2].blk_idx + 1] = <<>>

\* a block the cache holds, or a call was handed, is the block of the table
CacheHoldsTheTable ==
    /\ \A j \in 1..Len(scache) : scache[j] # <<>> => scache[j] = <<table.blocks[j]>>
    /\ \A i \in DOMAIN calls :
          calls[i].stage = "got" => calls[i].blk = <<table.blocks[calls[i].blk_idx + 1]>>

====
